---- MODULE Spec2Model ----
(***************************************************************************)
(* SyncFlow issue-tracking backend: the credential routes (auth.js), the   *)
(* project routes (projects.js) and the issue routes (issues.js) over the  *)
(* relational store they share.  Every route handler is one action; its    *)
(* HTTP response is left in the variable resp.                             *)
(***************************************************************************)
EXTENDS Integers, Sequences, FiniteSets, Bags, TLC

VARIABLES
    User,                \* table User: email -> row (the row id is modelled by its unique email)
    Otp,                 \* table Otp: bag of rows [email, otp, expires_at]
    now,                 \* the clock read by Date.now() / new Date(), in ms
    Project,             \* table Project: id -> [name, ownerId]
    ProjectCollaborator, \* table ProjectCollaborator: bag of rows [projectId, userId]
    Issue,               \* table Issue: id -> [title, status, priority, projectId,
                         \* createdAt]
    IssueAssignee,       \* table IssueAssignee: bag of rows [issueId, userId]
    projectSeq,          \* number of project ids the id generator has handed out
    issueSeq,            \* number of issue ids the id generator has handed out
    resp,                \* the HTTP response of the last request handled
    prior,               \* history: the tables as the last writing request found them
    emitted,             \* the socket.io events the last request broadcast
    inflight             \* the requests whose handler is suspended at an await

vars == <<User, Otp, now, Project, ProjectCollaborator, Issue, IssueAssignee,
          projectSeq, issueSeq, resp, prior, emitted, inflight>>

authVars == <<User, Otp, now>>
trackerVars == <<Project, ProjectCollaborator, Issue, IssueAssignee, projectSeq, issueSeq>>

----------------------------------------------------------------------------
(* Bounds of the model *)

\* clock ticks the model lets pass
MaxTicks == 2
\* Otp rows that may exist at once
MaxOtps == 2
\* longest id list (userIds, assigneeIds, collaboratorIds) a request carries
MaxIds == 2

\* one clock tick, in ms
TickMs == 5 * 60 * 1000

\* the e-mail addresses (and so the user ids) requests may name
UserIds == {"A", "B", "C"}
\* the addresses the credential routes are exercised with
AuthEmails == {"A", "B"}
\* a user id that no User row ever has
GhostId == "Z"
Names == {"", "Ann"}
Passwords == {"", "pw1", "pw2"}

----------------------------------------------------------------------------
(* Values *)

\* an HTTP exchange: op names the route that answered, request keeps the route
\* parameter it was called with (for the credential routes the address and the code,
\* and for verify-otp the time at which it was handled)
Response(op, request, status, message, body) ==
    [op |-> op, request |-> request, status |-> status, message |-> message, body |-> body]

NoBody == [kind |-> "none"]

\* an id that no row has: a missing or empty id in a request
NoId == 0

\* the handlers that may be suspended at the same time
Slots == {"r1", "r2"}

\* no handler is suspended
NoRequests == [s \in Slots |-> [op |-> "idle"]]

\* bcrypt.hash(password, salt): one-way, the salt is not modelled
bcryptHash(password) == <<"bcrypt", password>>

\* bcrypt.compare(password, hash)
bcryptCompare(password, hash) == hash = bcryptHash(password)

\* Number.prototype.toString() of a non-negative integer: its decimal digits
RECURSIVE toString(_)
toString(n) == IF n < 10 THEN <<n>> ELSE Append(toString(n \div 10), n % 10)

\* Math.floor(100000 + Math.random() * 900000).toString(), where draw is
\* Math.floor(Math.random() * 900000), a value of 0 .. 899999
GenerateOtp(draw) == toString(100000 + draw)

\* the draws of Math.random() the model takes: the two ends of its range
OtpDraws == {0, 899999}

\* the otp strings a verify-otp request may carry
OtpInputs == {GenerateOtp(d) : d \in OtpDraws} \cup {<<0, 1, 0, 0, 0, 0, 0>>}

\* expires_at of an Otp row created at time t: Date.now() + 10 * 60 * 1000
OtpExpiry(t) == t + 10 * 60 * 1000

\* one row fewer / one row more in a table kept as a bag
BagAdd(B, row) == B (+) SetToBag({row})
BagRemove(B, row) == B (-) SetToBag({row})

----------------------------------------------------------------------------
(* auth.js *)

\* prisma.user.create({ data: { name, email, password_hash } })
UserCreate(table, name, email, password_hash) ==
    [e \in DOMAIN table \cup {email} |->
        IF e = email THEN [name |-> name, password_hash |-> password_hash] ELSE table[e]]

\* mutant: a signup for a registered address overwrites the stored row
SignupUpsert(name, email, password) ==
    /\ IF name = "" \/ email = "" \/ password = ""
       THEN /\ resp' = Response("signup", [email |-> email],
                                400, "All fields are required.", NoBody)
            /\ User' = User
       ELSE /\ User' = UserCreate(User, name, email, bcryptHash(password))
            /\ resp' = Response("signup", [email |-> email], 201, "User created successfully!",
                                [kind |-> "user", email |-> email])
    /\ UNCHANGED <<Otp, now, trackerVars, prior, emitted, inflight>>

\* POST /signup
Signup(name, email, password) ==
    /\ IF name = "" \/ email = "" \/ password = ""
       THEN /\ resp' = Response("signup", [email |-> email],
                                400, "All fields are required.", NoBody)
            /\ User' = User
       ELSE IF email \in DOMAIN User
       THEN /\ resp' = Response("signup", [email |-> email],
                                400, "User with this email already exists.", NoBody)
            /\ User' = User
       ELSE /\ User' = UserCreate(User, name, email, bcryptHash(password))
            /\ resp' = Response("signup", [email |-> email], 201, "User created successfully!",
                                [kind |-> "user", email |-> email])
    /\ UNCHANGED <<Otp, now, trackerVars, prior, emitted, inflight>>

\* the response of POST /login
LoginResponse(table, email, password) ==
    IF email = "" \/ password = ""
    THEN Response("login", [email |-> email, password |-> password],
                  400, "Email and password are required.", NoBody)
    ELSE IF email \notin DOMAIN table
    THEN Response("login", [email |-> email, password |-> password],
                  400, "Invalid credentials.", NoBody)
    ELSE IF ~bcryptCompare(password, table[email].password_hash)
    THEN Response("login", [email |-> email, password |-> password],
                  400, "Invalid credentials.", NoBody)
    ELSE Response("login", [email |-> email, password |-> password],
                  200, "Logged in successfully!", [kind |-> "user", email |-> email])

\* POST /login
Login(email, password) ==
    /\ resp' = LoginResponse(User, email, password)
    /\ UNCHANGED <<authVars, trackerVars, prior, emitted, inflight>>

\* POST /forgot-password; mailOk is whether transporter.sendMail resolves
ForgotPassword(email, draw, mailOk) ==
    /\ IF email \notin DOMAIN User
       THEN /\ resp' = Response("forgot-password", [email |-> email], 200,
                        "If a user with that email exists, an OTP has been sent.", NoBody)
            /\ Otp' = Otp
       ELSE /\ BagCardinality(Otp) < MaxOtps
            /\ Otp' = BagAdd(Otp, [email |-> email, otp |-> GenerateOtp(draw),
                                   expires_at |-> OtpExpiry(now)])
            /\ resp' = IF mailOk
                       THEN Response("forgot-password", [email |-> email], 200,
                                "OTP sent to your email successfully.", NoBody)
                       ELSE Response("forgot-password", [email |-> email], 500,
                                "Server error while sending OTP.", NoBody)
    /\ UNCHANGED <<User, now, trackerVars, prior, emitted, inflight>>

\* the rows prisma.otp.findFirst may return:
\* where: { email, otp, expires_at: { gt: new Date() } }
OtpMatches(table, email, otp, t) ==
    {r \in BagToSet(table) : r.email = email /\ r.otp = otp /\ r.expires_at > t}

\* POST /verify-otp
VerifyOtp(email, otp, newPassword) ==
    /\ IF OtpMatches(Otp, email, otp, now) = {}
       THEN /\ resp' = Response("verify-otp", [email |-> email, otp |-> otp, at |-> now],
                                400, "Invalid or expired OTP.", NoBody)
            /\ UNCHANGED <<User, Otp>>
       ELSE \E otpRecord \in OtpMatches(Otp, email, otp, now) :
            IF email \notin DOMAIN User
            THEN /\ resp' = Response("verify-otp", [email |-> email, otp |-> otp, at |-> now],
                                     500,
                                "Server error during password reset.", NoBody)
                 /\ UNCHANGED <<User, Otp>>
            ELSE /\ User' = [User EXCEPT ![email].password_hash = bcryptHash(newPassword)]
                 /\ Otp' = BagRemove(Otp, otpRecord)
                 /\ resp' = Response("verify-otp", [email |-> email, otp |-> otp, at |-> now],
                                     200,
                                "Password has been reset successfully.", NoBody)
    /\ UNCHANGED <<now, trackerVars, prior, emitted, inflight>>

\* time passes between requests
Tick ==
    /\ now + TickMs <= MaxTicks * TickMs
    /\ now' = now + TickMs
    /\ UNCHANGED <<User, Otp, trackerVars, resp, prior, emitted, inflight>>


----------------------------------------------------------------------------
(* Request values and the relational store *)

\* an optional field of a request body: absent (undefined) or present
Absent == [present |-> FALSE]
Some(v) == [present |-> TRUE, value |-> v]

\* the elements of an array
Range(s) == {s[i] : i \in DOMAIN s}

\* arrays over S of length <= n
SeqsUpTo(S, n) == UNION {[1..k -> S] : k \in 0..n}

\* the ids the arrays of a request are made of: two users, and an id of no user
ListIds == {"B", "C", GhostId}

\* the id arrays a request may carry
IdLists == SeqsUpTo(ListIds, MaxIds)

\* the ids the id generator gives to projects
ProjectIds == {1}

\* the ids the id generator gives to issues
IssueIds == {1}

\* the issue ids of the step-wise specification: one issue is there from the start
\* and one more may be created
StepIssueIds == {1, 2}

\* the id arrays the requests of the step-wise specification carry
StepIdLists == {<<"B">>, <<"B", "B">>, <<"B", "C">>, <<"C">>}


\* the rows of a join table that belong to one parent
RowsOfIssue(table, issueId) == {r \in BagToSet(table) : r.issueId = issueId}
RowsOfProject(table, projectId) == {r \in BagToSet(table) : r.projectId = projectId}

\* deleteMany: every copy of the rows in rows leaves the table
DeleteRows(table, rows) ==
    LET keep == BagToSet(table) \ rows
    IN  [r \in keep |-> CopiesIn(r, table)]

\* the users linked to an issue, each with its number of links
AssigneesOf(table, issueId) ==
    LET us == {r.userId : r \in RowsOfIssue(table, issueId)}
    IN  [u \in us |-> CopiesIn([issueId |-> issueId, userId |-> u], table)]

\* the users linked to a project, each with its number of links
CollaboratorsOf(table, projectId) ==
    LET us == {r.userId : r \in RowsOfProject(table, projectId)}
    IN  [u \in us |-> CopiesIn([projectId |-> projectId, userId |-> u], table)]

\* mutant: the join tables carry no unique index
NoUniqueIndex(table, row) == FALSE

\* the unique index on (issueId, userId) / (projectId, userId): P2002 when the row is there
UniqueViolation(table, row) == BagIn(row, table)

\* the foreign key userId -> User: P2003 when no such user
UserKeyViolation(users, row) == row.userId \notin DOMAIN users

\* mutant: an INSERT that no unique index guards
InsertRowUnindexed(table, users, row) ==
    IF UserKeyViolation(users, row) THEN [error |-> "P2003", table |-> table]
    ELSE [error |-> "", table |-> BagAdd(table, row)]

\* one INSERT into a join table: the new table, or the Prisma error code
InsertRow(table, users, row) ==
    IF UniqueViolation(table, row) THEN [error |-> "P2002", table |-> table]
    ELSE IF UserKeyViolation(users, row) THEN [error |-> "P2003", table |-> table]
    ELSE [error |-> "", table |-> BagAdd(table, row)]

\* a nested write `create: [...]`: the rows are inserted in one transaction,
\* so the first error rolls all of them back
RECURSIVE InsertAll(_, _, _, _)
InsertAll(table, users, rows, original) ==
    IF rows = <<>> THEN [error |-> "", table |-> table]
    ELSE LET r == InsertRow(table, users, Head(rows))
         IN  IF r.error # "" THEN [error |-> r.error, table |-> original]
             ELSE InsertAll(r.table, users, Tail(rows), original)

NestedCreate(table, users, rows) == InsertAll(table, users, rows, table)

\* mutant: createMany without skipDuplicates, a duplicate fails the statement
CreateManyStrict(table, users, rows) == NestedCreate(table, users, rows)

\* createMany({ data, skipDuplicates: true }): one INSERT ... ON CONFLICT DO NOTHING;
\* a foreign-key error fails the statement as a whole
RECURSIVE InsertSkipping(_, _, _, _)
InsertSkipping(table, users, rows, original) ==
    IF rows = <<>> THEN [error |-> "", table |-> table]
    ELSE LET row == Head(rows)
         IN  IF UserKeyViolation(users, row) THEN [error |-> "P2003", table |-> original]
             ELSE IF UniqueViolation(table, row)
             THEN InsertSkipping(table, users, Tail(rows), original)
             ELSE InsertSkipping(BagAdd(table, row), users, Tail(rows), original)

CreateManySkipDuplicates(table, users, rows) == InsertSkipping(table, users, rows, table)

\* the issue as the routes return it: include project.name and the assignees
HydrateIssue(issues, assignees, projects, issueId) ==
    [kind |-> "issue", id |-> issueId,
     title |-> issues[issueId].title,
     status |-> issues[issueId].status,
     priority |-> issues[issueId].priority,
     projectId |-> issues[issueId].projectId,
     projectName |-> projects[issues[issueId].projectId].name,
     assignees |-> AssigneesOf(assignees, issueId)]

----------------------------------------------------------------------------
(* Text *)

\* the characters of the titles and search texts the model uses
Chars(str) ==
    CASE str = "" -> <<>>
      [] str = "Fix login bug" ->
            <<"F", "i", "x", " ", "l", "o", "g", "i", "n", " ", "b", "u", "g">>
      [] str = "Fix signup bug" ->
            <<"F", "i", "x", " ", "s", "i", "g", "n", "u", "p", " ", "b", "u", "g">>
      [] str = "login" -> <<"l", "o", "g", "i", "n">>
      [] str = "LOGIN" -> <<"L", "O", "G", "I", "N">>
      [] str = "fix" -> <<"f", "i", "x">>

\* case folding of one character
LowerChar(c) ==
    CASE c = "F" -> "f" [] c = "L" -> "l" [] c = "O" -> "o"
      [] c = "G" -> "g" [] c = "I" -> "i" [] c = "N" -> "n"
      [] OTHER -> c

ToLower(s) == [k \in DOMAIN s |-> LowerChar(s[k])]

\* needle occurs in hay as a run of consecutive characters
ContainsSeq(hay, needle) ==
    \E k \in 0..(Len(hay) - Len(needle)) : SubSeq(hay, k + 1, k + Len(needle)) = needle

\* mutant: title: { contains: search } compared case-sensitively
ContainsSensitive(title, search) == ContainsSeq(Chars(title), Chars(search))

\* title: { contains: search, mode: 'insensitive' }
ContainsInsensitive(title, search) ==
    ContainsSeq(ToLower(Chars(title)), ToLower(Chars(search)))

----------------------------------------------------------------------------
(* issues.js *)

\* what a request finds: the projects there are, and the join tables
Found == [projects |-> DOMAIN Project,
          ProjectCollaborator |-> ProjectCollaborator,
          IssueAssignee |-> IssueAssignee]

\* req.io.emit(event, payload): a broadcast to every connected socket
Emit(event, payload) == [event |-> event, payload |-> payload]

\* the value of an optional field, or a default
OrElse(field, default) == IF field.present THEN field.value ELSE default

\* assigneeIds.map(userId => ({ userId })) as rows of one issue; no rows unless
\* the field is a non-empty array
AssigneeRows(issueId, ids) ==
    IF ids.present /\ Len(ids.value) > 0
    THEN [k \in DOMAIN ids.value |-> [issueId |-> issueId, userId |-> ids.value[k]]]
    ELSE <<>>

\* mutant: collaborators of the project pass the ownership check too
OwnsOrCollaboratesOnIssue(userId, issueId) ==
    \/ Project[Issue[issueId].projectId].ownerId = userId
    \/ BagIn([projectId |-> Issue[issueId].projectId, userId |-> userId], ProjectCollaborator)

\* project.ownerId === currentUserId for the project of an issue
OwnsIssue(userId, issueId) == Project[Issue[issueId].projectId].ownerId = userId

\* the foreign key IssueAssignee.issueId -> Issue, ON DELETE CASCADE
CascadeIssueAssignee(table, issueIds) ==
    DeleteRows(table, {r \in BagToSet(table) : r.issueId \in issueIds})

\* POST /api/issues
CreateIssue(currentUserId, title, projectId, priority, assigneeIds) ==
    /\ IF title = "" \/ projectId = NoId
       THEN /\ resp' = Response("POST /issues", [id |-> projectId],
                                400, "Title and projectId are required.", NoBody)
            /\ UNCHANGED <<Issue, IssueAssignee, issueSeq>>
       ELSE IF projectId \notin DOMAIN Project
       THEN /\ resp' = Response("POST /issues", [id |-> projectId],
                                404, "Project not found.", NoBody)
            /\ UNCHANGED <<Issue, IssueAssignee, issueSeq>>
       ELSE IF Project[projectId].ownerId # currentUserId
       THEN /\ resp' = Response("POST /issues", [id |-> projectId],
                                403, "Only project owner can create issues.", NoBody)
            /\ UNCHANGED <<Issue, IssueAssignee, issueSeq>>
       ELSE /\ issueSeq + 1 \in IssueIds
            /\ LET issueId == issueSeq + 1
                   issueData == [title |-> title, status |-> "open",
                                 priority |-> IF priority.present /\ priority.value # ""
                                              THEN priority.value ELSE "medium",
                                 projectId |-> projectId,
                                 createdAt |-> now]
                   created == [i \in DOMAIN Issue \cup {issueId} |->
                                  IF i = issueId THEN issueData ELSE Issue[i]]
                   nested == NestedCreate(IssueAssignee, User, AssigneeRows(issueId, assigneeIds))
               IN  IF nested.error # ""
                   THEN /\ resp' = Response("POST /issues", [id |-> projectId],
                                            500, "Failed to create issue.", NoBody)
                        /\ UNCHANGED <<Issue, IssueAssignee, issueSeq>>
                   ELSE /\ Issue' = created
                        /\ IssueAssignee' = nested.table
                        /\ issueSeq' = issueId
                        /\ resp' = Response("POST /issues", [id |-> projectId], 201, "",
                                       HydrateIssue(created, nested.table, Project, issueId))
    /\ UNCHANGED <<authVars, Project, ProjectCollaborator, projectSeq>>
    /\ prior' = Found
    /\ UNCHANGED inflight
    /\ emitted' = IF resp'.status = 201
                  THEN <<Emit("issue:created", resp'.body)>> ELSE <<>>

\* mutant: PATCH keeps the rows that are there and adds the new ones to them
KeepAssignees(table, issueId, assigneeIds) == table

\* if (assigneeIds !== undefined) prisma.issueAssignee.deleteMany({ where: { issueId } })
ClearAssignees(table, issueId, assigneeIds) ==
    IF assigneeIds.present THEN DeleteRows(table, RowsOfIssue(table, issueId)) ELSE table

\* PATCH /api/issues/:issueId
PatchIssue(currentUserId, issueId, title, status, priority, assigneeIds) ==
    /\ IF issueId \notin DOMAIN Issue
       THEN /\ resp' = Response("PATCH /issues/:issueId", [id |-> issueId],
                                404, "Issue not found.", NoBody)
            /\ UNCHANGED <<Issue, IssueAssignee>>
       ELSE IF ~OwnsIssue(currentUserId, issueId)
       THEN /\ resp' = Response("PATCH /issues/:issueId", [id |-> issueId], 403,
                            "Only project owner can update issues.", NoBody)
            /\ UNCHANGED <<Issue, IssueAssignee>>
       ELSE LET \* the deleteMany is a write of its own, committed before the update
                removed == ClearAssignees(IssueAssignee, issueId, assigneeIds)
                \* prisma.issue.update with the nested create, one transaction
                nested == NestedCreate(removed, User, AssigneeRows(issueId, assigneeIds))
                updated == [Issue EXCEPT ![issueId] =
                               [title |-> OrElse(title, @.title),
                                status |-> OrElse(status, @.status),
                                priority |-> OrElse(priority, @.priority),
                                projectId |-> @.projectId,
                                createdAt |-> @.createdAt]]
            IN  IF nested.error # ""
                THEN /\ Issue' = Issue
                     /\ IssueAssignee' = removed
                     /\ resp' = Response("PATCH /issues/:issueId", [id |-> issueId], 500,
                                    "Failed to update issue.", NoBody)
                ELSE /\ Issue' = updated
                     /\ IssueAssignee' = nested.table
                     /\ resp' = Response("PATCH /issues/:issueId", [id |-> issueId], 200, "",
                                    HydrateIssue(updated, nested.table, Project, issueId))
    /\ UNCHANGED <<authVars, Project, ProjectCollaborator, projectSeq, issueSeq>>
    /\ prior' = Found
    /\ UNCHANGED inflight
    /\ emitted' = IF resp'.status = 200
                  THEN <<Emit("issue:updated", resp'.body)>> ELSE <<>>

\* userIds.map(async userId => create ...) under Promise.all: every create runs on
\* its own; P2002 is swallowed, any other error rejects the whole
RECURSIVE AssignEach(_, _, _, _)
AssignEach(table, users, issueId, userIds) ==
    IF userIds = <<>> THEN [failed |-> FALSE, table |-> table]
    ELSE LET r == InsertRow(table, users, [issueId |-> issueId, userId |-> Head(userIds)])
             rest == AssignEach(r.table, users, issueId, Tail(userIds))
         IN  [failed |-> rest.failed \/ r.error \notin {"", "P2002"}, table |-> rest.table]

\* POST /api/issues/:issueId/assign
AssignIssue(currentUserId, issueId, userIds) ==
    /\ IF ~userIds.present \/ Len(userIds.value) = 0
       THEN /\ resp' = Response("POST /issues/:issueId/assign", [id |-> issueId], 400,
                            "userIds array is required.", NoBody)
            /\ IssueAssignee' = IssueAssignee
       ELSE IF issueId \notin DOMAIN Issue
       THEN /\ resp' = Response("POST /issues/:issueId/assign", [id |-> issueId],
                                404, "Issue not found.", NoBody)
            /\ IssueAssignee' = IssueAssignee
       ELSE IF ~OwnsIssue(currentUserId, issueId)
       THEN /\ resp' = Response("POST /issues/:issueId/assign", [id |-> issueId], 403,
                            "Only project owner can assign users.", NoBody)
            /\ IssueAssignee' = IssueAssignee
       ELSE LET done == AssignEach(IssueAssignee, User, issueId, userIds.value)
            IN  /\ IssueAssignee' = done.table
                /\ resp' = IF done.failed
                           THEN Response("POST /issues/:issueId/assign", [id |-> issueId], 500,
                                    "Failed to assign users.", NoBody)
                           ELSE Response("POST /issues/:issueId/assign", [id |-> issueId], 200,
                                    "Users assigned successfully",
                                    HydrateIssue(Issue, done.table, Project, issueId))
    /\ UNCHANGED <<authVars, Project, ProjectCollaborator, Issue, projectSeq, issueSeq>>
    /\ prior' = Found
    /\ UNCHANGED inflight
    /\ emitted' = IF resp'.status = 200
                  THEN <<Emit("issue:assigned", resp'.body)>> ELSE <<>>

\* mutant: unassign drops every row of the issue, whatever userIds lists
UnassignEvery(table, issueId, userIds) == RowsOfIssue(table, issueId)

\* the where condition of unassign: the listed users, or every row of the issue
UnassignWhere(table, issueId, userIds) ==
    IF userIds.present /\ Len(userIds.value) > 0
    THEN {r \in RowsOfIssue(table, issueId) : r.userId \in Range(userIds.value)}
    ELSE RowsOfIssue(table, issueId)

\* POST /api/issues/:issueId/unassign
UnassignIssue(currentUserId, issueId, userIds) ==
    /\ IF issueId \notin DOMAIN Issue
       THEN /\ resp' = Response("POST /issues/:issueId/unassign", [id |-> issueId],
                                404, "Issue not found.", NoBody)
            /\ IssueAssignee' = IssueAssignee
       ELSE IF ~OwnsIssue(currentUserId, issueId)
       THEN /\ resp' = Response("POST /issues/:issueId/unassign", [id |-> issueId], 403,
                            "Only project owner can unassign users.", NoBody)
            /\ IssueAssignee' = IssueAssignee
       ELSE LET found == UnassignWhere(IssueAssignee, issueId, userIds)
                \* findMany returns one element per stored row
                removedAssignees == [u \in {r.userId : r \in found} |->
                                        CopiesIn([issueId |-> issueId, userId |-> u], IssueAssignee)]
                left == DeleteRows(IssueAssignee, found)
            IN  /\ IssueAssignee' = left
                /\ resp' = Response("POST /issues/:issueId/unassign", [id |-> issueId], 200,
                               "Users unassigned successfully",
                               [kind |-> "unassigned",
                                issue |-> HydrateIssue(Issue, left, Project, issueId),
                                removedAssignees |-> removedAssignees])
    /\ UNCHANGED <<authVars, Project, ProjectCollaborator, Issue, projectSeq, issueSeq>>
    /\ prior' = Found
    /\ UNCHANGED inflight
    /\ emitted' = IF resp'.status = 200
                  THEN <<Emit("issue:unassigned",
                              [issueId |-> issueId,
                               projectId |-> Issue[issueId].projectId,
                               removedAssignees |-> resp'.body.removedAssignees])>>
                  ELSE <<>>

\* DELETE /api/issues/:issueId
DeleteIssue(currentUserId, issueId) ==
    /\ IF issueId \notin DOMAIN Issue
       THEN /\ resp' = Response("DELETE /issues/:issueId", [id |-> issueId],
                                404, "Issue not found.", NoBody)
            /\ UNCHANGED <<Issue, IssueAssignee>>
       ELSE IF ~OwnsIssue(currentUserId, issueId)
       THEN /\ resp' = Response("DELETE /issues/:issueId", [id |-> issueId], 403,
                            "Only project owner can delete issues.", NoBody)
            /\ UNCHANGED <<Issue, IssueAssignee>>
       ELSE /\ Issue' = [i \in DOMAIN Issue \ {issueId} |-> Issue[i]]
            /\ IssueAssignee' = CascadeIssueAssignee(IssueAssignee, {issueId})
            /\ resp' = Response("DELETE /issues/:issueId", [id |-> issueId], 204, "", NoBody)
    /\ UNCHANGED <<authVars, Project, ProjectCollaborator, projectSeq, issueSeq>>
    /\ prior' = Found
    /\ UNCHANGED inflight
    /\ emitted' = IF resp'.status = 204
                  THEN <<Emit("issue:deleted", [id |-> issueId])>> ELSE <<>>

----------------------------------------------------------------------------
(* projects.js *)

\* collaboratorIds.map(id => ({ userId: id })) / userIds.map(uid => ({ projectId, userId }))
CollaboratorRows(projectId, ids) ==
    IF ids.present /\ Len(ids.value) > 0
    THEN [k \in DOMAIN ids.value |-> [projectId |-> projectId, userId |-> ids.value[k]]]
    ELSE <<>>

\* mutant: only the owner passes the access condition
OwnerOnly(userId, projectId) == Project[projectId].ownerId = userId

\* where: { OR: [{ ownerId: userId }, { collaborators: { some: { userId } } }] }
OwnerOrCollaborator(userId, projectId) ==
    \/ Project[projectId].ownerId = userId
    \/ \E r \in RowsOfProject(ProjectCollaborator, projectId) : r.userId = userId

\* mutant: collaborators pass the owner-only condition too
OwnsOrCollaboratesOnProject(userId, id) == OwnerOrCollaborator(userId, id)

\* where: { id: id, ownerId: userId }, for a project that is there
OwnsProject(userId, id) == Project[id].ownerId = userId

\* the foreign key Issue.projectId -> Project, ON DELETE RESTRICT
IssueProjectKeyRestricts(issues, projectId) ==
    \E i \in DOMAIN issues : issues[i].projectId = projectId

\* the foreign key ProjectCollaborator.projectId -> Project, ON DELETE CASCADE
CascadeProjectCollaborator(table, projectId) ==
    DeleteRows(table, RowsOfProject(table, projectId))

\* mutant: a collaborator link decides the role before ownership does
CollaboratorBeforeOwner(projects, userId, id) ==
    IF BagIn([projectId |-> id, userId |-> userId], ProjectCollaborator)
    THEN "collaborator"
    ELSE IF projects[id].ownerId = userId THEN "owner" ELSE "collaborator"

\* userRole: project.ownerId === userId ? 'owner' : 'collaborator'
UserRole(projects, userId, id) ==
    IF projects[id].ownerId = userId THEN "owner" ELSE "collaborator"

\* the project as the routes return it: include collaborators (and issues)
HydrateProject(projects, collaborators, issues, projectId, userRole) ==
    [kind |-> "project", id |-> projectId,
     name |-> projects[projectId].name,
     ownerId |-> projects[projectId].ownerId,
     collaborators |-> CollaboratorsOf(collaborators, projectId),
     issues |-> {i \in DOMAIN issues : issues[i].projectId = projectId},
     userRole |-> userRole]

\* mutant: the project row is written first and the links in a second statement
CreateProjectInTwoWrites(userId, name, collaboratorIds) ==
    /\ IF name = ""
       THEN /\ resp' = Response("POST /projects", [id |-> NoId],
                                400, "Project name is required.", NoBody)
            /\ UNCHANGED <<Project, ProjectCollaborator, projectSeq>>
       ELSE /\ projectSeq + 1 \in ProjectIds
            /\ LET id == projectSeq + 1
                   created == [p \in DOMAIN Project \cup {id} |->
                                  IF p = id THEN [name |-> name, ownerId |-> userId,
                                                  createdAt |-> now]
                                  ELSE Project[p]]
                   nested == NestedCreate(ProjectCollaborator, User,
                                          CollaboratorRows(id, collaboratorIds))
               IN  /\ Project' = created
                   /\ ProjectCollaborator' = nested.table
                   /\ projectSeq' = id
                   /\ resp' = IF nested.error # ""
                              THEN Response("POST /projects", [id |-> NoId], 500,
                                       "Failed to create project.", NoBody)
                              ELSE Response("POST /projects", [id |-> NoId], 201, "",
                                       HydrateProject(created, nested.table, <<>>, id, "owner"))
    /\ UNCHANGED <<authVars, Issue, IssueAssignee, issueSeq>>
    /\ prior' = Found
    /\ UNCHANGED inflight
    /\ emitted' = <<>>

\* POST /api/projects
CreateProject(userId, name, collaboratorIds) ==
    /\ IF name = ""
       THEN /\ resp' = Response("POST /projects", [id |-> NoId],
                                400, "Project name is required.", NoBody)
            /\ UNCHANGED <<Project, ProjectCollaborator, projectSeq>>
       ELSE /\ projectSeq + 1 \in ProjectIds
            /\ LET id == projectSeq + 1
                   created == [p \in DOMAIN Project \cup {id} |->
                                  IF p = id THEN [name |-> name, ownerId |-> userId,
                                                  createdAt |-> now]
                                  ELSE Project[p]]
                   nested == NestedCreate(ProjectCollaborator, User,
                                          CollaboratorRows(id, collaboratorIds))
               IN  IF nested.error # ""
                   THEN /\ resp' = Response("POST /projects", [id |-> NoId], 500,
                                        "Failed to create project.", NoBody)
                        /\ UNCHANGED <<Project, ProjectCollaborator, projectSeq>>
                   ELSE /\ Project' = created
                        /\ ProjectCollaborator' = nested.table
                        /\ projectSeq' = id
                        /\ resp' = Response("POST /projects", [id |-> NoId], 201, "",
                                       HydrateProject(created, nested.table, <<>>, id, "owner"))
    /\ UNCHANGED <<authVars, Issue, IssueAssignee, issueSeq>>
    /\ prior' = Found
    /\ UNCHANGED inflight
    /\ emitted' = <<>>

\* DELETE /api/projects/:id
DeleteProject(userId, id) ==
    /\ IF id \notin DOMAIN Project \/ ~OwnsProject(userId, id)
       THEN /\ resp' = Response("DELETE /projects/:id", [id |-> id], 404,
                            "Project not found or access denied (owner only)", NoBody)
            /\ UNCHANGED <<Project, ProjectCollaborator>>
       ELSE IF IssueProjectKeyRestricts(Issue, id)
       THEN /\ resp' = Response("DELETE /projects/:id", [id |-> id],
                                500, "Failed to delete project", NoBody)
            /\ UNCHANGED <<Project, ProjectCollaborator>>
       ELSE /\ Project' = [p \in DOMAIN Project \ {id} |-> Project[p]]
            /\ ProjectCollaborator' = CascadeProjectCollaborator(ProjectCollaborator, id)
            /\ resp' = Response("DELETE /projects/:id", [id |-> id],
                                200, "Project deleted successfully",
                           [kind |-> "deleted", id |-> id])
    /\ UNCHANGED <<authVars, Issue, IssueAssignee, projectSeq, issueSeq>>
    /\ prior' = Found
    /\ UNCHANGED inflight
    /\ emitted' = <<>>

\* what POST /api/projects/:id/assign answers and the collaborator links it leaves
AssignProjectOutcome(userId, id, userIds) ==
    IF ~userIds.present \/ Len(userIds.value) = 0
    THEN [resp |-> Response("POST /projects/:id/assign", [id |-> id],
                       400, "User IDs array is required", NoBody),
          table |-> ProjectCollaborator]
    ELSE IF id \notin DOMAIN Project \/ ~OwnerOrCollaborator(userId, id)
    THEN [resp |-> Response("POST /projects/:id/assign", [id |-> id],
                       404, "Project not found or access denied", NoBody),
          table |-> ProjectCollaborator]
    ELSE LET made == CreateManySkipDuplicates(ProjectCollaborator, User,
                                              CollaboratorRows(id, userIds))
         IN  IF made.error # ""
             THEN [resp |-> Response("POST /projects/:id/assign", [id |-> id],
                                500, "Failed to assign users to project", NoBody),
                   table |-> ProjectCollaborator]
             ELSE [resp |-> Response("POST /projects/:id/assign", [id |-> id], 200, "",
                                HydrateProject(Project, made.table, <<>>, id, "")),
                   table |-> made.table]

\* POST /api/projects/:id/assign
AssignProject(userId, id, userIds) ==
    /\ resp' = AssignProjectOutcome(userId, id, userIds).resp
    /\ ProjectCollaborator' = AssignProjectOutcome(userId, id, userIds).table
    /\ UNCHANGED <<authVars, Project, Issue, IssueAssignee, projectSeq, issueSeq>>
    /\ prior' = Found
    /\ UNCHANGED inflight
    /\ emitted' = <<>>

\* mutant: the collaborators are removed before the ownership of the project is
\* looked up
UnassignProjectThenCheck(userId, id, userIds) ==
    /\ IF ~userIds.present \/ Len(userIds.value) = 0
       THEN /\ resp' = Response("POST /projects/:id/unassign", [id |-> id], 400,
                            "User IDs array is required", NoBody)
            /\ ProjectCollaborator' = ProjectCollaborator
       ELSE /\ ProjectCollaborator' =
                   DeleteRows(ProjectCollaborator,
                              {r \in RowsOfProject(ProjectCollaborator, id) :
                                  r.userId \in Range(userIds.value)})
            /\ resp' = IF id \notin DOMAIN Project \/ ~OwnsProject(userId, id)
                       THEN Response("POST /projects/:id/unassign", [id |-> id], 404,
                                "Project not found or access denied (owner only)", NoBody)
                       ELSE Response("POST /projects/:id/unassign", [id |-> id], 200,
                                "Users removed from project successfully", NoBody)
    /\ UNCHANGED <<authVars, Project, Issue, IssueAssignee, projectSeq, issueSeq>>
    /\ prior' = Found
    /\ UNCHANGED inflight
    /\ emitted' = <<>>

\* POST /api/projects/:id/unassign
UnassignProject(userId, id, userIds) ==
    /\ IF ~userIds.present \/ Len(userIds.value) = 0
       THEN /\ resp' = Response("POST /projects/:id/unassign", [id |-> id], 400,
                            "User IDs array is required", NoBody)
            /\ ProjectCollaborator' = ProjectCollaborator
       ELSE IF id \notin DOMAIN Project \/ ~OwnsProject(userId, id)
       THEN /\ resp' = Response("POST /projects/:id/unassign", [id |-> id], 404,
                            "Project not found or access denied (owner only)", NoBody)
            /\ ProjectCollaborator' = ProjectCollaborator
       ELSE /\ ProjectCollaborator' =
                   DeleteRows(ProjectCollaborator,
                              {r \in RowsOfProject(ProjectCollaborator, id) :
                                  r.userId \in Range(userIds.value)})
            /\ resp' = Response("POST /projects/:id/unassign", [id |-> id], 200,
                           "Users removed from project successfully", NoBody)
    /\ UNCHANGED <<authVars, Project, Issue, IssueAssignee, projectSeq, issueSeq>>
    /\ prior' = Found
    /\ UNCHANGED inflight
    /\ emitted' = <<>>

\* the response of GET /api/projects/:id
GetProjectResponse(userId, id) ==
    IF id \notin DOMAIN Project \/ ~OwnerOrCollaborator(userId, id)
    THEN Response("GET /projects/:id", [id |-> id],
                  404, "Project not found or access denied", NoBody)
    ELSE Response("GET /projects/:id", [id |-> id], 200, "",
             HydrateProject(Project, ProjectCollaborator, Issue, id,
                            UserRole(Project, userId, id)))

\* GET /api/projects/:id
GetProject(userId, id) ==
    /\ resp' = GetProjectResponse(userId, id)
    /\ emitted' = <<>>
    /\ UNCHANGED <<authVars, trackerVars, prior, inflight>>

\* the orders a result set may come in
Orderings(S) ==
    {s \in [1..Cardinality(S) -> S] : \A i, j \in 1..Cardinality(S) : i # j => s[i] # s[j]}

\* orderBy: { createdAt: 'desc' }; rows created at the same instant come in any order
NewestFirst(table, S) ==
    {s \in Orderings(S) :
        \A i, j \in DOMAIN s : i < j => table[s[i]].createdAt >= table[s[j]].createdAt}

\* assignees: { some: { userId: userId } }
AssignedTo(userId, issueId) ==
    \E r \in RowsOfIssue(IssueAssignee, issueId) : r.userId = userId

\* the where clause of GET /api/projects: owned, or holding an issue assigned to the
\* caller, or collaborated on
ProjectsWhere(userId) ==
    {p \in DOMAIN Project :
        \/ Project[p].ownerId = userId
        \/ \E i \in DOMAIN Issue : Issue[i].projectId = p /\ AssignedTo(userId, i)
        \/ \E r \in RowsOfProject(ProjectCollaborator, p) : r.userId = userId}

\* one element of the list GET /api/projects returns: the project with its
\* collaborators, those of its issues that are assigned to the caller, and the two
\* fields the handler adds
ListedProject(userId, id) ==
    LET issues == {i \in DOMAIN Issue : Issue[i].projectId = id /\ AssignedTo(userId, i)}
    IN  [kind |-> "project", id |-> id,
         name |-> Project[id].name,
         ownerId |-> Project[id].ownerId,
         collaborators |-> CollaboratorsOf(ProjectCollaborator, id),
         issues |-> issues,
         userRole |-> UserRole(Project, userId, id),
         assignedIssuesCount |-> Cardinality(issues)]

\* the response of GET /api/projects when the database returns the rows in this order
GetProjectsResponse(userId, order) ==
    Response("GET /projects", [id |-> NoId, userId |-> userId], 200, "",
             [kind |-> "projects",
              list |-> [k \in DOMAIN order |-> ListedProject(userId, order[k])]])

\* GET /api/projects
GetProjects(userId) ==
    /\ \E order \in NewestFirst(Project, ProjectsWhere(userId)) :
          resp' = GetProjectsResponse(userId, order)
    /\ emitted' = <<>>
    /\ UNCHANGED <<authVars, trackerVars, prior, inflight>>

\* mutant: the where clause without its OR of ownership and assignment
IssuesWhereAnyone(userId, projectId, status, priority, search) ==
    {i \in DOMAIN Issue :
        /\ projectId # NoId => Issue[i].projectId = projectId
        /\ status # "" => Issue[i].status = status
        /\ priority # "" => Issue[i].priority = priority
        /\ search # "" => ContainsInsensitive(Issue[i].title, search)}

\* the where clause of GET /api/issues: a query parameter that is missing or empty
\* (NoId, "") adds no condition
IssuesWhere(userId, projectId, status, priority, search) ==
    {i \in DOMAIN Issue :
        /\ projectId # NoId => Issue[i].projectId = projectId
        /\ status # "" => Issue[i].status = status
        /\ priority # "" => Issue[i].priority = priority
        /\ search # "" => ContainsInsensitive(Issue[i].title, search)
        /\ \/ Project[Issue[i].projectId].ownerId = userId
           \/ AssignedTo(userId, i)}

\* the response of GET /api/issues when the database returns the rows in this order
GetIssuesResponse(userId, projectId, status, priority, search, order) ==
    Response("GET /issues",
             [id |-> NoId, userId |-> userId, projectId |-> projectId,
              status |-> status, priority |-> priority, search |-> search],
             200, "",
             [kind |-> "issues",
              list |-> [k \in DOMAIN order |->
                           HydrateIssue(Issue, IssueAssignee, Project, order[k])]])

\* GET /api/issues
GetIssues(userId, projectId, status, priority, search) ==
    /\ \E order \in NewestFirst(Issue, IssuesWhere(userId, projectId, status, priority, search)) :
          resp' = GetIssuesResponse(userId, projectId, status, priority, search, order)
    /\ emitted' = <<>>
    /\ UNCHANGED <<authVars, trackerVars, prior, inflight>>

----------------------------------------------------------------------------
(* issues.js, one await at a time *)

\* the handler in slot s is suspended at an await with these locals
Suspend(s, locals) ==
    /\ inflight' = [inflight EXCEPT ![s] = locals]
    /\ UNCHANGED <<resp, emitted>>

\* the handler in slot s has broadcast its events and sent its response
Finish(s, response, events) ==
    /\ resp' = response
    /\ emitted' = events
    /\ inflight' = [inflight EXCEPT ![s] = [op |-> "idle"]]

\* POST /api/issues, up to the result of prisma.project.findUnique
StartCreateIssue(s, currentUserId, title, projectId, assigneeIds) ==
    /\ inflight[s].op = "idle"
    /\ IF title = "" \/ projectId = NoId
       THEN Finish(s, Response("POST /issues", [id |-> projectId],
                               400, "Title and projectId are required.", NoBody), <<>>)
       ELSE IF projectId \notin DOMAIN Project
       THEN Finish(s, Response("POST /issues", [id |-> projectId],
                               404, "Project not found.", NoBody), <<>>)
       ELSE IF Project[projectId].ownerId # currentUserId
       THEN Finish(s, Response("POST /issues", [id |-> projectId],
                               403, "Only project owner can create issues.", NoBody), <<>>)
       ELSE Suspend(s, [op |-> "POST /issues", pc |-> "create", title |-> title,
                        projectId |-> projectId, assigneeIds |-> assigneeIds])
    /\ UNCHANGED <<authVars, trackerVars, prior>>

\* POST /api/issues: prisma.issue.create with the nested create, emit, respond
CreateIssueWrite(s) ==
    /\ inflight[s].op = "POST /issues"
    /\ issueSeq + 1 \in StepIssueIds
    /\ LET projectId == inflight[s].projectId
           issueId == issueSeq + 1
           issueData == [title |-> inflight[s].title, status |-> "open",
                         priority |-> "medium", projectId |-> projectId,
                         createdAt |-> now]
           created == [i \in DOMAIN Issue \cup {issueId} |->
                          IF i = issueId THEN issueData ELSE Issue[i]]
           nested == NestedCreate(IssueAssignee, User,
                                  AssigneeRows(issueId, inflight[s].assigneeIds))
       IN  IF projectId \notin DOMAIN Project \/ nested.error # ""
           THEN /\ Finish(s, Response("POST /issues", [id |-> projectId],
                                      500, "Failed to create issue.", NoBody), <<>>)
                /\ UNCHANGED <<Issue, IssueAssignee, issueSeq>>
           ELSE /\ Issue' = created
                /\ IssueAssignee' = nested.table
                /\ issueSeq' = issueId
                /\ LET newIssue == HydrateIssue(created, nested.table, Project, issueId)
                   IN  Finish(s, Response("POST /issues", [id |-> projectId], 201, "",
                                          newIssue),
                              <<Emit("issue:created", newIssue)>>)
    /\ UNCHANGED <<authVars, Project, ProjectCollaborator, projectSeq, prior>>

\* PATCH /api/issues/:issueId, up to the result of prisma.issue.findUnique
StartPatchIssue(s, currentUserId, issueId, status, assigneeIds) ==
    /\ inflight[s].op = "idle"
    /\ IF issueId \notin DOMAIN Issue
       THEN Finish(s, Response("PATCH /issues/:issueId", [id |-> issueId],
                               404, "Issue not found.", NoBody), <<>>)
       ELSE IF ~OwnsIssue(currentUserId, issueId)
       THEN Finish(s, Response("PATCH /issues/:issueId", [id |-> issueId], 403,
                               "Only project owner can update issues.", NoBody), <<>>)
       ELSE Suspend(s, [op |-> "PATCH /issues/:issueId",
                        pc |-> IF assigneeIds.present THEN "deleteMany" ELSE "update",
                        issueId |-> issueId, status |-> status,
                        assigneeIds |-> assigneeIds])
    /\ UNCHANGED <<authVars, trackerVars, prior>>

\* PATCH /api/issues/:issueId: prisma.issueAssignee.deleteMany({ where: { issueId } })
PatchDeleteMany(s) ==
    /\ inflight[s].op = "PATCH /issues/:issueId"
    /\ inflight[s].pc = "deleteMany"
    /\ IssueAssignee' = DeleteRows(IssueAssignee,
                                   RowsOfIssue(IssueAssignee, inflight[s].issueId))
    /\ Suspend(s, [inflight[s] EXCEPT !.pc = "update"])
    /\ UNCHANGED <<authVars, Project, ProjectCollaborator, Issue, projectSeq, issueSeq,
                   prior>>

\* PATCH /api/issues/:issueId: prisma.issue.update with the nested create, emit,
\* respond
PatchUpdate(s) ==
    /\ inflight[s].op = "PATCH /issues/:issueId"
    /\ inflight[s].pc = "update"
    /\ LET issueId == inflight[s].issueId
           nested == NestedCreate(IssueAssignee, User,
                                  AssigneeRows(issueId, inflight[s].assigneeIds))
           updated == [Issue EXCEPT ![issueId].status = OrElse(inflight[s].status, @)]
       IN  IF issueId \notin DOMAIN Issue
           THEN \* P2025: the record to update is gone
                /\ Finish(s, Response("PATCH /issues/:issueId", [id |-> issueId], 404,
                                      "Issue not found.", NoBody), <<>>)
                /\ UNCHANGED <<Issue, IssueAssignee>>
           ELSE IF nested.error # ""
           THEN /\ Finish(s, Response("PATCH /issues/:issueId", [id |-> issueId], 500,
                                      "Failed to update issue.", NoBody), <<>>)
                /\ UNCHANGED <<Issue, IssueAssignee>>
           ELSE /\ Issue' = updated
                /\ IssueAssignee' = nested.table
                /\ LET updatedIssue == HydrateIssue(updated, nested.table, Project, issueId)
                   IN  Finish(s, Response("PATCH /issues/:issueId",
                                          [id |-> issueId,
                                           assigneeIds |-> inflight[s].assigneeIds],
                                          200, "", updatedIssue),
                              <<Emit("issue:updated", updatedIssue)>>)
    /\ UNCHANGED <<authVars, Project, ProjectCollaborator, projectSeq, issueSeq, prior>>

\* POST /api/issues/:issueId/assign, up to the result of prisma.issue.findUnique;
\* then every create of assignPromises is pending
StartAssignIssue(s, currentUserId, issueId, userIds) ==
    /\ inflight[s].op = "idle"
    /\ IF ~userIds.present \/ Len(userIds.value) = 0
       THEN Finish(s, Response("POST /issues/:issueId/assign", [id |-> issueId], 400,
                               "userIds array is required.", NoBody), <<>>)
       ELSE IF issueId \notin DOMAIN Issue
       THEN Finish(s, Response("POST /issues/:issueId/assign", [id |-> issueId],
                               404, "Issue not found.", NoBody), <<>>)
       ELSE IF ~OwnsIssue(currentUserId, issueId)
       THEN Finish(s, Response("POST /issues/:issueId/assign", [id |-> issueId], 403,
                               "Only project owner can assign users.", NoBody), <<>>)
       ELSE Suspend(s, [op |-> "POST /issues/:issueId/assign", issueId |-> issueId,
                        userIds |-> userIds.value, pending |-> DOMAIN userIds.value,
                        failed |-> FALSE])
    /\ UNCHANGED <<authVars, trackerVars, prior>>

\* POST /api/issues/:issueId/assign: one prisma.issueAssignee.create of
\* assignPromises, in whatever order the database runs them; P2002 is swallowed
AssignCreate(s) ==
    /\ inflight[s].op = "POST /issues/:issueId/assign"
    /\ \E k \in inflight[s].pending :
          LET r == InsertRow(IssueAssignee, User,
                             [issueId |-> inflight[s].issueId,
                              userId |-> inflight[s].userIds[k]])
          IN  /\ IssueAssignee' = r.table
              /\ Suspend(s, [inflight[s] EXCEPT
                                !.pending = @ \ {k},
                                !.failed = @ \/ r.error \notin {"", "P2002"}])
    /\ UNCHANGED <<authVars, Project, ProjectCollaborator, Issue, projectSeq, issueSeq,
                   prior>>

\* POST /api/issues/:issueId/assign: Promise.all has settled; findUnique, emit,
\* respond
AssignRespond(s) ==
    /\ inflight[s].op = "POST /issues/:issueId/assign"
    /\ inflight[s].pending = {}
    /\ LET issueId == inflight[s].issueId
       IN  IF inflight[s].failed
           THEN Finish(s, Response("POST /issues/:issueId/assign", [id |-> issueId], 500,
                                   "Failed to assign users.", NoBody), <<>>)
           ELSE LET updatedIssue == IF issueId \in DOMAIN Issue
                                    THEN HydrateIssue(Issue, IssueAssignee, Project, issueId)
                                    ELSE NoBody
                IN  Finish(s, Response("POST /issues/:issueId/assign", [id |-> issueId],
                                       200, "Users assigned successfully", updatedIssue),
                           <<Emit("issue:assigned", updatedIssue)>>)
    /\ UNCHANGED <<authVars, trackerVars, prior>>

\* POST /api/issues/:issueId/unassign, up to the result of prisma.issue.findUnique
StartUnassignIssue(s, currentUserId, issueId, userIds) ==
    /\ inflight[s].op = "idle"
    /\ IF issueId \notin DOMAIN Issue
       THEN Finish(s, Response("POST /issues/:issueId/unassign", [id |-> issueId],
                               404, "Issue not found.", NoBody), <<>>)
       ELSE IF ~OwnsIssue(currentUserId, issueId)
       THEN Finish(s, Response("POST /issues/:issueId/unassign", [id |-> issueId], 403,
                               "Only project owner can unassign users.", NoBody), <<>>)
       ELSE Suspend(s, [op |-> "POST /issues/:issueId/unassign", pc |-> "findMany",
                        issueId |-> issueId, projectId |-> Issue[issueId].projectId,
                        userIds |-> userIds, removedAssignees |-> <<>>])
    /\ UNCHANGED <<authVars, trackerVars, prior>>

\* POST /api/issues/:issueId/unassign: prisma.issueAssignee.findMany(whereCondition)
UnassignFindMany(s) ==
    /\ inflight[s].op = "POST /issues/:issueId/unassign"
    /\ inflight[s].pc = "findMany"
    /\ LET found == UnassignWhere(IssueAssignee, inflight[s].issueId, inflight[s].userIds)
           removedAssignees ==
               [u \in {r.userId : r \in found} |->
                   CopiesIn([issueId |-> inflight[s].issueId, userId |-> u], IssueAssignee)]
       IN  Suspend(s, [inflight[s] EXCEPT !.pc = "deleteMany",
                                          !.removedAssignees = removedAssignees])
    /\ UNCHANGED <<authVars, trackerVars, prior>>

\* POST /api/issues/:issueId/unassign: prisma.issueAssignee.deleteMany(whereCondition)
UnassignDeleteMany(s) ==
    /\ inflight[s].op = "POST /issues/:issueId/unassign"
    /\ inflight[s].pc = "deleteMany"
    /\ IssueAssignee' =
          DeleteRows(IssueAssignee,
                     UnassignWhere(IssueAssignee, inflight[s].issueId, inflight[s].userIds))
    /\ Suspend(s, [inflight[s] EXCEPT !.pc = "respond"])
    /\ UNCHANGED <<authVars, Project, ProjectCollaborator, Issue, projectSeq, issueSeq,
                   prior>>

\* POST /api/issues/:issueId/unassign: findUnique, emit, respond
UnassignRespond(s) ==
    /\ inflight[s].op = "POST /issues/:issueId/unassign"
    /\ inflight[s].pc = "respond"
    /\ LET issueId == inflight[s].issueId
       IN  IF issueId \notin DOMAIN Issue
           THEN Finish(s, Response("POST /issues/:issueId/unassign", [id |-> issueId], 200,
                                   "Users unassigned successfully",
                                   [kind |-> "unassigned", issue |-> NoBody,
                                    removedAssignees |-> inflight[s].removedAssignees]),
                       <<Emit("issue:unassigned",
                              [issueId |-> issueId, projectId |-> inflight[s].projectId,
                               removedAssignees |-> inflight[s].removedAssignees])>>)
           ELSE Finish(s, Response("POST /issues/:issueId/unassign", [id |-> issueId], 200,
                                   "Users unassigned successfully",
                                   [kind |-> "unassigned",
                                    issue |-> HydrateIssue(Issue, IssueAssignee, Project,
                                                           issueId),
                                    removedAssignees |-> inflight[s].removedAssignees]),
                       <<Emit("issue:unassigned",
                              [issueId |-> issueId, projectId |-> inflight[s].projectId,
                               removedAssignees |-> inflight[s].removedAssignees])>>)
    /\ UNCHANGED <<authVars, trackerVars, prior>>

----------------------------------------------------------------------------
(* auth.js, one await at a time *)

\* mutant: the User table has no unique index on email
NoUserEmailKey(table, email) == FALSE

\* the unique index User_email_key: P2002 when a row with the email is there
UserEmailKeyViolation(table, email) == email \in DOMAIN table

\* POST /signup, up to the result of prisma.user.findUnique
StartSignup(s, name, email, password) ==
    /\ inflight[s].op = "idle"
    /\ IF name = "" \/ email = "" \/ password = ""
       THEN Finish(s, Response("signup", [email |-> email],
                               400, "All fields are required.", NoBody), <<>>)
       ELSE IF email \in DOMAIN User
       THEN Finish(s, Response("signup", [email |-> email],
                               400, "User with this email already exists.", NoBody), <<>>)
       ELSE Suspend(s, [op |-> "signup", name |-> name, email |-> email,
                        password |-> password])
    /\ UNCHANGED <<authVars, trackerVars, prior>>

\* POST /signup: bcrypt.hash, prisma.user.create, respond
SignupCreate(s) ==
    /\ inflight[s].op = "signup"
    /\ LET email == inflight[s].email
       IN  IF UserEmailKeyViolation(User, email)
           THEN /\ Finish(s, Response("signup", [email |-> email],
                                      500, "Server error during signup.", NoBody), <<>>)
                /\ User' = User
           ELSE /\ User' = UserCreate(User, inflight[s].name, email,
                                      bcryptHash(inflight[s].password))
                /\ Finish(s, Response("signup", [email |-> email], 201,
                                      "User created successfully!",
                                      [kind |-> "user", email |-> email]), <<>>)
    /\ UNCHANGED <<Otp, now, trackerVars, prior>>

\* POST /verify-otp, up to the result of prisma.otp.findFirst
StartVerifyOtp(s, email, otp, newPassword) ==
    /\ inflight[s].op = "idle"
    /\ IF OtpMatches(Otp, email, otp, now) = {}
       THEN Finish(s, Response("verify-otp", [email |-> email, otp |-> otp, at |-> now],
                               400, "Invalid or expired OTP.", NoBody), <<>>)
       ELSE \E otpRecord \in OtpMatches(Otp, email, otp, now) :
               Suspend(s, [op |-> "verify-otp", pc |-> "update", email |-> email,
                           otp |-> otp, at |-> now, otpRecord |-> otpRecord,
                           newPassword |-> newPassword])
    /\ UNCHANGED <<authVars, trackerVars, prior>>

\* POST /verify-otp: bcrypt.hash, prisma.user.update({ where: { email } })
VerifyOtpUpdate(s) ==
    /\ inflight[s].op = "verify-otp"
    /\ inflight[s].pc = "update"
    /\ LET email == inflight[s].email
       IN  IF email \notin DOMAIN User
           THEN /\ Finish(s, Response("verify-otp",
                                      [email |-> email, otp |-> inflight[s].otp,
                                       at |-> inflight[s].at],
                                      500, "Server error during password reset.", NoBody),
                          <<>>)
                /\ User' = User
           ELSE /\ User' = [User EXCEPT ![email].password_hash =
                                           bcryptHash(inflight[s].newPassword)]
                /\ Suspend(s, [inflight[s] EXCEPT !.pc = "delete"])
    /\ UNCHANGED <<Otp, now, trackerVars, prior>>

\* POST /verify-otp: prisma.otp.delete({ where: { id: otpRecord.id } }), respond;
\* P2025 when the row is gone
VerifyOtpDelete(s) ==
    /\ inflight[s].op = "verify-otp"
    /\ inflight[s].pc = "delete"
    /\ IF ~BagIn(inflight[s].otpRecord, Otp)
       THEN /\ Finish(s, Response("verify-otp",
                                  [email |-> inflight[s].email, otp |-> inflight[s].otp,
                                   at |-> inflight[s].at],
                                  500, "Server error during password reset.", NoBody), <<>>)
            /\ Otp' = Otp
       ELSE /\ Otp' = BagRemove(Otp, inflight[s].otpRecord)
            /\ Finish(s, Response("verify-otp",
                                  [email |-> inflight[s].email, otp |-> inflight[s].otp,
                                   at |-> inflight[s].at],
                                  200, "Password has been reset successfully.", NoBody), <<>>)
    /\ UNCHANGED <<User, now, trackerVars, prior>>

----------------------------------------------------------------------------
(* Specifications *)

NoResponse == Response("none", [id |-> NoId], 0, "", NoBody)

\* the empty database the server starts on
Init ==
    /\ User = <<>>
    /\ Otp = EmptyBag
    /\ now = 0
    /\ Project = <<>>
    /\ ProjectCollaborator = EmptyBag
    /\ Issue = <<>>
    /\ IssueAssignee = EmptyBag
    /\ projectSeq = 0
    /\ issueSeq = 0
    /\ resp = NoResponse
    /\ prior = Found
    /\ emitted = <<>>
    /\ inflight = NoRequests

NextAuth ==
    \/ \E name \in Names, email \in AuthEmails \cup {""}, password \in Passwords :
          Signup(name, email, password)
    \/ \E email \in AuthEmails \cup {""}, password \in Passwords : Login(email, password)
    \/ \E email \in AuthEmails, draw \in OtpDraws, mailOk \in BOOLEAN :
          ForgotPassword(email, draw, mailOk)
    \/ \E email \in AuthEmails, otp \in OtpInputs, newPassword \in Passwords \ {""} :
          VerifyOtp(email, otp, newPassword)
    \/ Tick

\* the credential routes on their own
SpecAuth == Init /\ [][NextAuth]_vars

\* the callers of the project and issue routes: users holding a token
Callers == DOMAIN User

\* the database once the users of UserIds have signed up
InitTracker ==
    /\ User = [u \in UserIds |-> [name |-> "Ann", password_hash |-> bcryptHash("pw1")]]
    /\ Otp = EmptyBag
    /\ now = 0
    /\ Project = <<>>
    /\ ProjectCollaborator = EmptyBag
    /\ Issue = <<>>
    /\ IssueAssignee = EmptyBag
    /\ projectSeq = 0
    /\ issueSeq = 0
    /\ resp = NoResponse
    /\ prior = Found
    /\ emitted = <<>>
    /\ inflight = NoRequests

OptIdLists == {Absent} \cup {Some(l) : l \in IdLists}
ProjectIdInputs == ProjectIds
IssueIdInputs == IssueIds

ProjectNames == {"", "Roadmap"}
Titles == {"", "Fix login bug"}
OptStatuses == {Absent, Some("done")}

NextTracker ==
    \/ \E u \in Callers, name \in ProjectNames, ids \in OptIdLists : CreateProject(u, name, ids)
    \/ \E u \in Callers, id \in ProjectIdInputs : DeleteProject(u, id)
    \/ \E u \in Callers, id \in ProjectIdInputs, ids \in OptIdLists : AssignProject(u, id, ids)
    \/ \E u \in Callers, id \in ProjectIdInputs, ids \in OptIdLists : UnassignProject(u, id, ids)
    \/ \E u \in Callers, id \in ProjectIdInputs : GetProject(u, id)
    \/ \E u \in Callers, title \in Titles, id \in ProjectIdInputs \cup {NoId}, ids \in OptIdLists :
          CreateIssue(u, title, id, Absent, ids)
    \/ \E u \in Callers, id \in IssueIdInputs, status \in OptStatuses, ids \in OptIdLists :
          PatchIssue(u, id, Absent, status, Absent, ids)
    \/ \E u \in Callers, id \in IssueIdInputs, ids \in OptIdLists : AssignIssue(u, id, ids)
    \/ \E u \in Callers, id \in IssueIdInputs, ids \in OptIdLists : UnassignIssue(u, id, ids)
    \/ \E u \in Callers, id \in IssueIdInputs : DeleteIssue(u, id)

\* the project and issue routes, called by signed-up users
SpecTracker == InitTracker /\ [][NextTracker]_vars

\* the database after A has created the project "Roadmap" and one issue in it
InitInterleaved ==
    /\ User = [u \in UserIds |-> [name |-> "Ann", password_hash |-> bcryptHash("pw1")]]
    /\ Otp = EmptyBag
    /\ now = 0
    /\ Project = [p \in {1} |-> [name |-> "Roadmap", ownerId |-> "A", createdAt |-> 0]]
    /\ ProjectCollaborator = EmptyBag
    /\ Issue = [i \in {1} |-> [title |-> "Fix login bug", status |-> "open",
                               priority |-> "medium", projectId |-> 1, createdAt |-> 0]]
    /\ IssueAssignee = EmptyBag
    /\ projectSeq = 1
    /\ issueSeq = 1
    /\ resp = NoResponse
    /\ prior = Found
    /\ emitted = <<>>
    /\ inflight = NoRequests

\* the callers of the step-wise specification: the owner and a user who is not
StepCallers == {"A", "B"}

\* the issue the requests of the step-wise specification name: the one that is there
\* from the start (the id of a new issue is not known to anyone before its creation
\* has been answered)
StepIssueIdInputs == {1}

NextInterleaved ==
    \/ \E s \in Slots, u \in StepCallers, ids \in StepIdLists :
          StartCreateIssue(s, u, "Fix signup bug", 1, Some(ids))
    \/ \E s \in Slots : CreateIssueWrite(s)
    \/ \E s \in Slots, u \in StepCallers, id \in StepIssueIdInputs,
          ids \in StepIdLists \cup {<<>>} :
          StartPatchIssue(s, u, id, Absent, Some(ids))
    \/ \E s \in Slots : PatchDeleteMany(s)
    \/ \E s \in Slots : PatchUpdate(s)
    \/ \E s \in Slots, u \in StepCallers, id \in StepIssueIdInputs, ids \in StepIdLists :
          StartAssignIssue(s, u, id, Some(ids))
    \/ \E s \in Slots : AssignCreate(s)
    \/ \E s \in Slots : AssignRespond(s)
    \/ \E s \in Slots, u \in StepCallers, id \in StepIssueIdInputs,
          ids \in StepIdLists \cup {<<>>} :
          StartUnassignIssue(s, u, id, Some(ids))
    \/ \E s \in Slots : UnassignFindMany(s)
    \/ \E s \in Slots : UnassignDeleteMany(s)
    \/ \E s \in Slots : UnassignRespond(s)

\* the issue routes with up to two handlers in progress, their database calls
\* interleaved in any order
SpecInterleaved == InitInterleaved /\ [][NextInterleaved]_vars

\* the database after A has signed up and asked for a reset code
InitAuthInterleaved ==
    /\ User = [u \in {"A"} |-> [name |-> "Ann", password_hash |-> bcryptHash("pw1")]]
    /\ Otp = SetToBag({[email |-> "A", otp |-> GenerateOtp(0), expires_at |-> OtpExpiry(0)]})
    /\ now = 0
    /\ Project = <<>>
    /\ ProjectCollaborator = EmptyBag
    /\ Issue = <<>>
    /\ IssueAssignee = EmptyBag
    /\ projectSeq = 0
    /\ issueSeq = 0
    /\ resp = NoResponse
    /\ prior = Found
    /\ emitted = <<>>
    /\ inflight = NoRequests

NextAuthInterleaved ==
    \/ \E s \in Slots, name \in Names, email \in AuthEmails, password \in Passwords \ {""} :
          StartSignup(s, name, email, password)
    \/ \E s \in Slots : SignupCreate(s)
    \/ \E s \in Slots, otp \in OtpInputs, newPassword \in Passwords \ {""} :
          StartVerifyOtp(s, "A", otp, newPassword)
    \/ \E s \in Slots : VerifyOtpUpdate(s)
    \/ \E s \in Slots : VerifyOtpDelete(s)

\* signup and verify-otp with up to two handlers in progress, their database calls
\* interleaved in any order
SpecAuthInterleaved == InitAuthInterleaved /\ [][NextAuthInterleaved]_vars

\* the ids of the projects and issues of a populated database
ReadProjectIds == {1, 2}
ReadIssueIds == {1, 2}

\* the databases the read routes are exercised on, each one left behind by the write
\* routes: A's project "Roadmap" and B's project "Website", an issue in the first
\* and a second issue in either, with the collaborators, assignees, states and
\* creation times varying; every link is there once and no row is older than its
\* parent
InitReads ==
    /\ User = [u \in UserIds |-> [name |-> "Ann", password_hash |-> bcryptHash("pw1")]]
    /\ Otp = EmptyBag
    /\ now = 2 * TickMs
    /\ Project = [p \in ReadProjectIds |->
                      IF p = 1
                      THEN [name |-> "Roadmap", ownerId |-> "A", createdAt |-> 0]
                      ELSE [name |-> "Website", ownerId |-> "B", createdAt |-> TickMs]]
    /\ \E us \in SUBSET {"A", "C"} :
          ProjectCollaborator = SetToBag({[projectId |-> 1, userId |-> u] : u \in us})
    /\ \E projectId \in ReadProjectIds, status \in {"open", "done"},
          priority \in {"medium", "high"}, at \in {0, TickMs, 2 * TickMs} :
          /\ at >= Project[projectId].createdAt
          /\ Issue = [i \in ReadIssueIds |->
                         IF i = 1
                         THEN [title |-> "Fix login bug", status |-> "open",
                               priority |-> "medium", projectId |-> 1,
                               createdAt |-> TickMs]
                         ELSE [title |-> "Fix signup bug", status |-> status,
                               priority |-> priority, projectId |-> projectId,
                               createdAt |-> at]]
    /\ \E us1 \in SUBSET {"B", "C"}, us2 \in SUBSET {"C"} :
          IssueAssignee = SetToBag({[issueId |-> 1, userId |-> u] : u \in us1}
                                   \cup {[issueId |-> 2, userId |-> u] : u \in us2})
    /\ projectSeq = 2
    /\ issueSeq = 2
    /\ resp = NoResponse
    /\ prior = Found
    /\ emitted = <<>>
    /\ inflight = NoRequests

\* the query parameters GET /api/issues is called with ("" and NoId: not supplied)
SearchTexts == {"", "login", "LOGIN", "fix"}
StatusFilters == {"", "open"}
PriorityFilters == {"", "high"}
ProjectIdFilters == {NoId, 1}
IssueQueries ==
    {[projectId |-> NoId, status |-> "", priority |-> "", search |-> search] :
        search \in SearchTexts}
    \cup {[projectId |-> projectId, status |-> status, priority |-> priority,
           search |-> ""] :
             projectId \in ProjectIdFilters, status \in StatusFilters,
             priority \in PriorityFilters}
    \cup {[projectId |-> 1, status |-> "open", priority |-> "", search |-> "fix"]}

NextReads ==
    \/ \E u \in Callers : GetProjects(u)
    \/ \E u \in Callers, id \in ReadProjectIds : GetProject(u, id)
    \/ \E u \in Callers, q \in IssueQueries :
          GetIssues(u, q.projectId, q.status, q.priority, q.search)

\* the read routes, called by signed-up users on a populated database
SpecReads == InitReads /\ [][NextReads]_vars

----------------------------------------------------------------------------
(* Properties of the credential routes *)

\* C4 as claimed: once verify-otp has succeeded for an address and a code, a further
\* verify-otp with the same address and code finds no record, and so fails with
\* "Invalid or expired OTP", whatever forgot-password and verify-otp calls came before.
VerifyResetIsSingleUse ==
    [][(resp'.op = "verify-otp" /\ resp'.status = 200)
          => OtpMatches(Otp', resp'.request.email, resp'.request.otp, now') = {}]_vars

\* the Otp rows of an address and a code
OtpRowsFor(email, otp) == {r \in BagToSet(Otp) : r.email = email /\ r.otp = otp}

\* C5 as claimed: for every Otp row, a verify-otp carrying its address and its code at
\* or after its expires_at fails with 400 and leaves the User and Otp tables unchanged.
ExpiredOtpAlwaysRejected ==
    [][\A r \in BagToSet(Otp) :
          (/\ resp'.op = "verify-otp"
           /\ resp'.request.email = r.email
           /\ resp'.request.otp = r.otp
           /\ now >= r.expires_at)
          => (resp'.status = 400 /\ User' = User /\ Otp' = Otp)]_vars

\* C5, what the code does guarantee: verify-otp fails and changes nothing when every
\* row with the address and the code is at or after its expires_at, and the row a
\* successful call consumes is never at or after its expires_at.
ExpiredOtpRejectedUnlessTwin ==
    [][resp'.op = "verify-otp" =>
          /\ (/\ OtpRowsFor(resp'.request.email, resp'.request.otp) # {}
              /\ \A r \in OtpRowsFor(resp'.request.email, resp'.request.otp) :
                    now >= r.expires_at)
                => (resp'.status = 400 /\ User' = User /\ Otp' = Otp)
          /\ \A r \in BagToSet(Otp) :
                CopiesIn(r, Otp') < CopiesIn(r, Otp) => r.expires_at > now]_vars

\* C6: a signup with valid fields for an address that is registered fails with the
\* duplicate-address error and leaves the User table, and with it the stored hash,
\* as it was, so that every login that succeeded before still succeeds.
DuplicateSignupRefused ==
    [][\A name \in Names \ {""}, email \in AuthEmails, password \in Passwords \ {""} :
          (email \in DOMAIN User /\ Signup(name, email, password))
          => /\ resp'.status = 400
             /\ resp'.message = "User with this email already exists."
             /\ User' = User
             /\ \A original \in Passwords :
                   LoginResponse(User, email, original).status = 200
                   => LoginResponse(User', email, original).status = 200]_vars

\* C6 witness: a signup was refused as a duplicate, and the login with the password
\* the address was registered with succeeds
DuplicateSignupSeen ==
    /\ resp.op = "signup"
    /\ resp.message = "User with this email already exists."
    /\ resp.request.email \in DOMAIN User
    /\ \E original \in Passwords :
          LoginResponse(User, resp.request.email, original).status = 200

----------------------------------------------------------------------------
(* Properties of the issue routes *)

\* the issue tables are as they were
IssueStoreUnchanged == Issue' = Issue /\ IssueAssignee' = IssueAssignee

\* the request was refused and wrote nothing
IssueRequestRefused == resp'.status \in {400, 403} /\ IssueStoreUnchanged

\* u is not the owner of the project issue i belongs to
NotOwnerOfIssue(u, i) == i \in DOMAIN Issue /\ Project[Issue[i].projectId].ownerId # u

\* C1: every issue operation (create, PATCH, assign, unassign, delete) called by a
\* user who is not the owner of the issue's parent project is refused (400 or 403)
\* and leaves the Issue and IssueAssignee tables as they were, also when the caller
\* is a collaborator of the project or an assignee of the issue.  Stated step by
\* step: a step either is a refusal that wrote nothing, or is not the step of any
\* issue operation called by a user who is not the owner.
OnlyOwnerMutatesIssues ==
    [][\/ IssueRequestRefused
       \/ /\ resp'.op = "POST /issues" =>
               \A u \in UserIds, p \in ProjectIds, t \in Titles, ids \in OptIdLists :
                   ~(p \in DOMAIN Project /\ Project[p].ownerId # u
                        /\ CreateIssue(u, t, p, Absent, ids))
          /\ resp'.op = "PATCH /issues/:issueId" =>
               \A u \in UserIds, i \in IssueIds, st \in OptStatuses, ids \in OptIdLists :
                   ~(NotOwnerOfIssue(u, i) /\ PatchIssue(u, i, Absent, st, Absent, ids))
          /\ resp'.op = "POST /issues/:issueId/assign" =>
               \A u \in UserIds, i \in IssueIds, ids \in OptIdLists :
                   ~(NotOwnerOfIssue(u, i) /\ AssignIssue(u, i, ids))
          /\ resp'.op = "POST /issues/:issueId/unassign" =>
               \A u \in UserIds, i \in IssueIds, ids \in OptIdLists :
                   ~(NotOwnerOfIssue(u, i) /\ UnassignIssue(u, i, ids))
          /\ resp'.op = "DELETE /issues/:issueId" =>
               \A u \in UserIds, i \in IssueIds :
                   ~(NotOwnerOfIssue(u, i) /\ DeleteIssue(u, i))
      ]_vars

\* every user but the owner collaborates on project p and is assigned to issue i
AllOthersCollaborateAndAreAssigned(p, i) ==
    \A u \in DOMAIN User \ {Project[p].ownerId} :
        /\ BagIn([projectId |-> p, userId |-> u], ProjectCollaborator)
        /\ BagIn([issueId |-> i, userId |-> u], IssueAssignee)

\* C1 witness: a PATCH was refused with 403, and it found every user other than the
\* owner a collaborator of the project and an assignee of the issue
CollaboratorAssigneeRefused ==
    /\ resp.op = "PATCH /issues/:issueId"
    /\ resp.status = 403
    /\ prior = Found
    /\ \E i \in DOMAIN Issue : AllOthersCollaborateAndAreAssigned(Issue[i].projectId, i)

\* C2 as claimed: a request either reports success, or reports failure and leaves
\* the project and issue tables as they were before it.
NoPartialSuccess ==
    [][resp'.status \in 200..299 \/ UNCHANGED trackerVars]_vars

----------------------------------------------------------------------------
(* Properties of the project routes *)

\* project p, its issues, their assignee links and its collaborator links are gone
\* from the tables of the next state
ProjectFullyGone(p) ==
    /\ p \notin DOMAIN Project'
    /\ \A i \in DOMAIN Issue' : Issue'[i].projectId # p
    /\ \A i \in DOMAIN Issue :
          Issue[i].projectId = p => RowsOfIssue(IssueAssignee', i) = {}
    /\ RowsOfProject(ProjectCollaborator', p) = {}

UnreadableLooksMissing ==
    [][\A u \in UserIds, p \in ProjectIds :
          /\ (resp'.op = "GET /projects/:id" /\ p \in DOMAIN Project /\ GetProject(u, p))
             => IF Project[p].ownerId = u
                THEN resp'.status = 200 /\ resp'.body.userRole = "owner"
                ELSE IF BagIn([projectId |-> p, userId |-> u], ProjectCollaborator)
                THEN resp'.status = 200 /\ resp'.body.userRole = "collaborator"
                ELSE /\ resp'.status = 404
                     /\ \A q \in (ProjectIds \cup {NoId}) \ DOMAIN Project :
                           /\ GetProjectResponse(u, q).status = 404
                           /\ GetProjectResponse(u, q).message = resp'.message
                           /\ GetProjectResponse(u, q).body = resp'.body
          /\ (/\ resp'.op = "POST /projects/:id/assign"
              /\ resp'.status = 200
              /\ resp'.request.id = p
              /\ BagIn([projectId |-> p, userId |-> u], ProjectCollaborator')
              /\ Project[p].ownerId # u)
             => /\ GetProjectResponse(u, p)'.status = 200
                /\ GetProjectResponse(u, p)'.body.userRole = "collaborator"]_vars

\* C10 witness: a GET answered 200 with userRole "collaborator" to the one collaborator
\* of the project, whom the last writing request, made on the project when it was
\* there already, had found not to be one
CollaboratorReadsAfterAssign ==
    /\ resp.op = "GET /projects/:id"
    /\ resp.status = 200
    /\ resp.body.userRole = "collaborator"
    /\ resp.request.id \in prior.projects
    /\ \E u \in DOMAIN User :
          /\ DOMAIN resp.body.collaborators = {u}
          /\ ~BagIn([projectId |-> resp.request.id, userId |-> u], prior.ProjectCollaborator)

----------------------------------------------------------------------------
(* Properties of the assignee set *)

\* each of the users of S once
OnceEach(S) == [u \in S |-> 1]

\* C7: after a successful PATCH /issues/:id with assigneeIds = S the assignees of the
\* issue are exactly the users of S, each linked once, whatever they were before; the
\* response shows the same set.
PatchReplacesAssignees ==
    [][(resp'.op = "PATCH /issues/:issueId" /\ resp'.status = 200) =>
          \A u \in UserIds, i \in IssueIds, st \in OptStatuses, S \in IdLists :
              PatchIssue(u, i, Absent, st, Absent, Some(S))
              => /\ AssigneesOf(IssueAssignee', i) = OnceEach(Range(S))
                 /\ resp'.body.assignees = OnceEach(Range(S))]_vars

\* C7 witness: a PATCH succeeded on an issue it found assigned to B and C, and the
\* issue is assigned to C alone
PatchedFromTwoToOne ==
    /\ resp.op = "PATCH /issues/:issueId"
    /\ resp.status = 200
    /\ AssigneesOf(prior.IssueAssignee, resp.request.id) = OnceEach({"B", "C"})
    /\ AssigneesOf(IssueAssignee, resp.request.id) = OnceEach({"C"})

\* C8: POST /issues/:id/assign by the owner with a non-empty list of users succeeds,
\* also when some or all of them are assigned already, and the assignees afterwards
\* are the union of the assignees before and the list, each linked exactly once.
AssignIsIdempotentUnion ==
    [][resp'.op = "POST /issues/:issueId/assign" =>
          \A u \in UserIds, i \in IssueIds, ids \in IdLists :
              (/\ i \in DOMAIN Issue
               /\ Project[Issue[i].projectId].ownerId = u
               /\ ids # <<>>
               /\ Range(ids) \subseteq DOMAIN User
               /\ AssignIssue(u, i, Some(ids)))
              => /\ resp'.status = 200
                 /\ AssigneesOf(IssueAssignee', i) =
                       OnceEach(DOMAIN AssigneesOf(IssueAssignee, i) \cup Range(ids))
                 /\ resp'.body.assignees = AssigneesOf(IssueAssignee', i)]_vars

\* C8 witness: an assign succeeded on an issue it found assigned to B, and the issue
\* is assigned to B and C, once each
AssignedOverlapping ==
    /\ resp.op = "POST /issues/:issueId/assign"
    /\ resp.status = 200
    /\ AssigneesOf(prior.IssueAssignee, resp.request.id) = OnceEach({"B"})
    /\ AssigneesOf(IssueAssignee, resp.request.id) = OnceEach({"B", "C"})

\* the users an unassign with userIds is to remove, among the assignees before
Listed(userIds, before) ==
    IF userIds.present /\ userIds.value # <<>> THEN Range(userIds.value) \cap before
    ELSE before

\* C9: POST /issues/:id/unassign by the owner without userIds (absent or empty)
\* removes every assignee link of the issue, with userIds it removes the links of the
\* listed users that were assigned and no other; removedAssignees is exactly the set
\* of users whose link the call removed, each once.
UnassignReturnsRemoved ==
    [][resp'.op = "POST /issues/:issueId/unassign" =>
          \A u \in UserIds, i \in IssueIds, ids \in OptIdLists :
              (/\ i \in DOMAIN Issue
               /\ Project[Issue[i].projectId].ownerId = u
               /\ UnassignIssue(u, i, ids))
              => LET before == DOMAIN AssigneesOf(IssueAssignee, i)
                     after == DOMAIN AssigneesOf(IssueAssignee', i)
                 IN  /\ resp'.status = 200
                     /\ after = before \ Listed(ids, before)
                     /\ resp'.body.removedAssignees = OnceEach(before \ after)
                     /\ resp'.body.issue.assignees = AssigneesOf(IssueAssignee', i)]_vars

\* C9 witness: an unassign found the issue assigned to B and C, removed B alone and
\* returned B alone
UnassignedOneOfTwo ==
    /\ resp.op = "POST /issues/:issueId/unassign"
    /\ resp.status = 200
    /\ AssigneesOf(prior.IssueAssignee, resp.request.id) = OnceEach({"B", "C"})
    /\ AssigneesOf(IssueAssignee, resp.request.id) = OnceEach({"C"})
    /\ resp.body.removedAssignees = OnceEach({"B"})

----------------------------------------------------------------------------
(* Who may change a project *)

\* the project table and the collaborator links are as they were
ProjectStoreUnchanged == Project' = Project /\ ProjectCollaborator' = ProjectCollaborator

\* u is not the owner of project p, which is there
NotOwnerOfProject(u, p) == p \in DOMAIN Project /\ Project[p].ownerId # u

\* u has a collaborator link to project p
Collaborates(u, p) == BagIn([projectId |-> p, userId |-> u], ProjectCollaborator)

\* C11 as claimed: a delete of a project, an addition of collaborators and a removal
\* of collaborators called by a user who is not the owner of the project leave the
\* project table and the collaborator links as they were.
ProjectMutationOwnerOnly ==
    [][ProjectStoreUnchanged
       \/ \A u \in UserIds, p \in ProjectIds, ids \in OptIdLists :
             ~(/\ NotOwnerOfProject(u, p)
               /\ \/ DeleteProject(u, p)
                  \/ AssignProject(u, p, ids)
                  \/ UnassignProject(u, p, ids))]_vars

\* C11, amended: a delete of a project and a removal of collaborators called by a
\* user who is not the owner, and an addition of collaborators called by a user who
\* is neither the owner nor a collaborator, leave the project table and the
\* collaborator links as they were; an addition by a collaborator is carried out.
DeleteAndRemoveOwnerOnly ==
    [][ProjectStoreUnchanged
       \/ \A u \in UserIds, p \in ProjectIds, ids \in OptIdLists :
             ~(/\ NotOwnerOfProject(u, p)
               /\ \/ DeleteProject(u, p)
                  \/ UnassignProject(u, p, ids)
                  \/ ~Collaborates(u, p) /\ AssignProject(u, p, ids))]_vars

\* C11 witness: a removal of collaborators with a well-formed list was answered 404
\* on a project that was there, all of whose users other than the owner collaborate
\* on it: the caller was a collaborator
CollaboratorRemovalRefused ==
    /\ resp.op = "POST /projects/:id/unassign"
    /\ resp.status = 404
    /\ prior = Found
    /\ resp.request.id \in DOMAIN Project
    /\ \A u \in DOMAIN User \ {Project[resp.request.id].ownerId} :
          Collaborates(u, resp.request.id)

\* C12: in every reachable state POST /projects/:id/assign with a non-empty list is
\* refused (404, nothing written) to a caller who is neither the owner nor a
\* collaborator of the project; called by the owner or a collaborator with a list of
\* users it answers 200, also when some or all of them collaborate already, and
\* leaves the union of the former collaborators and the list, each linked exactly
\* once; the same list added once more would leave the links as they are.
AddCollaboratorsIdempotent ==
    \A u \in UserIds, p \in DOMAIN Project, ids \in IdLists \ {<<>>} :
        LET out == AssignProjectOutcome(u, p, Some(ids))
        IN  IF Project[p].ownerId # u /\ ~Collaborates(u, p)
            THEN out.resp.status = 404 /\ out.table = ProjectCollaborator
            ELSE Range(ids) \subseteq DOMAIN User
                 => /\ out.resp.status = 200
                    /\ CollaboratorsOf(out.table, p) =
                          [x \in DOMAIN CollaboratorsOf(ProjectCollaborator, p)
                                    \cup Range(ids) |-> 1]
                    /\ out.resp.body.collaborators = CollaboratorsOf(out.table, p)
                    /\ CreateManySkipDuplicates(out.table, User,
                           CollaboratorRows(p, Some(ids))).table = out.table

\* C12 witness: an addition of collaborators was answered 200 and found every listed
\* user linked already: the links are those it found, and there are some
AddedCollaboratorsAgain ==
    /\ resp.op = "POST /projects/:id/assign"
    /\ resp.status = 200
    /\ prior.ProjectCollaborator = ProjectCollaborator
    /\ RowsOfProject(ProjectCollaborator, resp.request.id) # {}
    /\ \A u \in DOMAIN resp.body.collaborators : resp.body.collaborators[u] = 1

----------------------------------------------------------------------------
(* Broadcasts *)

\* the routes that write
MutatingOps ==
    {"POST /issues", "PATCH /issues/:issueId", "POST /issues/:issueId/assign",
     "POST /issues/:issueId/unassign", "DELETE /issues/:issueId",
     "POST /projects", "DELETE /projects/:id", "POST /projects/:id/assign",
     "POST /projects/:id/unassign"}

\* payload is the issue or the project as the store has it now, hydrated
HydratedEntity(payload) ==
    \/ /\ payload.kind = "issue"
       /\ payload.id \in DOMAIN Issue
       /\ payload = HydrateIssue(Issue, IssueAssignee, Project, payload.id)
    \/ /\ payload.kind = "project"
       /\ payload.id \in DOMAIN Project
       /\ payload.collaborators = CollaboratorsOf(ProjectCollaborator, payload.id)

\* C13 as claimed: every writing request that is answered with success has broadcast
\* an event; the payload is the hydrated entity as it now is, and for a delete the
\* marker {id}.
EverySuccessBroadcasts ==
    (resp.op \in MutatingOps /\ resp.status \in 200..299)
    => /\ Len(emitted) = 1
       /\ IF resp.op \in {"DELETE /issues/:issueId", "DELETE /projects/:id"}
          THEN emitted[1].payload = [id |-> resp.request.id]
          ELSE HydratedEntity(emitted[1].payload @@ [kind |-> "none"])

----------------------------------------------------------------------------
(* Creation of a project *)

\* the users a collaboratorIds field lists
ListedIn(ids) == IF ids.present THEN Range(ids.value) ELSE {}

\* C14: POST /projects either answers 201 and has added one project, owned by the
\* caller, with exactly one collaborator link for every listed id, or answers 400 or
\* 500 and leaves the project table and the collaborator links as they were; also
\* when the list repeats an id or names an id that is no user.
CreateProjectAtomic ==
    [][\/ resp'.status = 400 /\ ProjectStoreUnchanged
       \/ resp'.op = "POST /projects" =>
             \A u \in UserIds, name \in ProjectNames, ids \in OptIdLists :
                 CreateProject(u, name, ids)
                 => \/ /\ resp'.status = 201
                       /\ \E p \in DOMAIN Project' \ DOMAIN Project :
                             /\ DOMAIN Project' = DOMAIN Project \cup {p}
                             /\ Project'[p].ownerId = u
                             /\ CollaboratorsOf(ProjectCollaborator', p) =
                                   [x \in ListedIn(ids) |-> 1]
                             /\ resp'.body.id = p
                       /\ \A q \in DOMAIN Project :
                             /\ Project'[q] = Project[q]
                             /\ RowsOfProject(ProjectCollaborator', q) =
                                   RowsOfProject(ProjectCollaborator, q)
                    \/ resp'.status = 500 /\ ProjectStoreUnchanged]_vars

\* C14 witness: a creation with a name failed, and neither a project nor a
\* collaborator link is there
FailedCreationLeftNothing ==
    /\ resp.op = "POST /projects"
    /\ resp.status = 500
    /\ Project = <<>>
    /\ ProjectCollaborator = EmptyBag

----------------------------------------------------------------------------
(* The list of projects *)

\* roleOf(user, project): owner, else collaborator by link, else none
roleOf(u, p) ==
    IF Project[p].ownerId = u THEN "owner"
    ELSE IF Collaborates(u, p) THEN "collaborator"
    ELSE "none"

\* the issues of project p that have a link to u
AssignedIssues(u, p) ==
    {i \in DOMAIN Issue : Issue[i].projectId = p /\ BagIn([issueId |-> i, userId |-> u], IssueAssignee)}

\* the ids a list response carries
ListedIds(list) == {list[k].id : k \in DOMAIN list}

\* C15: GET /projects answers with exactly the projects the caller owns,
\* collaborates on or has an assigned issue in, each once, each annotated with the
\* caller's role as roleOf gives it (owner, collaborator by link, otherwise none) and
\* with assignedIssuesCount equal to the number of its issues assigned to the caller.
ProjectListAnnotatedByRoleOf ==
    resp.op = "GET /projects" =>
        LET u == resp.request.userId
            list == resp.body.list
        IN  /\ resp.status = 200
            /\ ListedIds(list) = {p \in DOMAIN Project :
                                     roleOf(u, p) # "none" \/ AssignedIssues(u, p) # {}}
            /\ Len(list) = Cardinality(ListedIds(list))
            /\ \A k \in DOMAIN list :
                  /\ list[k].userRole = roleOf(u, list[k].id)
                  /\ list[k].assignedIssuesCount = Cardinality(AssignedIssues(u, list[k].id))

\* the list GET /projects gives u has an element for project p carrying the role role
ListsWithRole(u, p, role) ==
    \A order \in NewestFirst(Project, ProjectsWhere(u)) :
        \E k \in DOMAIN order :
            LET item == GetProjectsResponse(u, order).body.list[k]
            IN  item.id = p /\ item.userRole = role

\* C16: a project's owner is reported as 'owner' by POST /projects, by
\* GET /projects/:id and by GET /projects, also when a collaborator link names the
\* owner; and whenever GET /projects/:id reports a role for a user and a project,
\* GET /projects lists that project for that user with the same role.
OwnerTakesPrecedence ==
    /\ resp.op = "POST /projects" /\ resp.status = 201 => resp.body.userRole = "owner"
    /\ \A u \in Callers, p \in DOMAIN Project :
          LET one == GetProjectResponse(u, p)
          IN  /\ Project[p].ownerId = u =>
                    one.status = 200 /\ one.body.userRole = "owner"
              /\ one.status = 200 => ListsWithRole(u, p, one.body.userRole)

\* a project was created by a user who is named among its collaborators too, and is
\* answered with the role 'owner'
OwnerAmongCollaborators ==
    /\ resp.op = "POST /projects"
    /\ resp.status = 201
    /\ resp.body.ownerId \in DOMAIN resp.body.collaborators
    /\ resp.body.userRole = "owner"
    /\ \E p \in DOMAIN Project :
          /\ Collaborates(Project[p].ownerId, p)
          /\ GetProjectResponse(Project[p].ownerId, p).body.userRole = "owner"

----------------------------------------------------------------------------
(* Who may read an issue *)

\* canReadIssue(user, issue): owner of or collaborator on the parent project, or one
\* of the issue's assignees
canReadIssue(u, i) ==
    \/ Project[Issue[i].projectId].ownerId = u
    \/ Collaborates(u, Issue[i].projectId)
    \/ BagIn([issueId |-> i, userId |-> u], IssueAssignee)

\* the issues GET /issues returns to u, over the queries and the orders of the result
ServedByGetIssues(u) ==
    UNION {ListedIds(GetIssuesResponse(u, q.projectId, q.status, q.priority, q.search,
                                       order).body.list) :
             <<q, order>> \in
                 UNION {{<<q, order>> :
                           order \in NewestFirst(Issue, IssuesWhere(u, q.projectId, q.status,
                                                                    q.priority, q.search))} :
                        q \in IssueQueries}}

\* the issues GET /projects/:id returns to u, over the projects
ServedByGetProject(u) ==
    UNION {GetProjectResponse(u, p).body.issues :
             p \in {p \in DOMAIN Project : GetProjectResponse(u, p).status = 200}}

\* the issues GET /projects returns to u inside the listed projects
ServedByGetProjects(u) ==
    UNION {UNION {GetProjectsResponse(u, order).body.list[k].issues : k \in DOMAIN order} :
             order \in NewestFirst(Project, ProjectsWhere(u))}

\* C17: the issues the read routes (GET /issues, GET /projects/:id, GET /projects)
\* return to a user are exactly the issues the user may read: every issue of a
\* project the user owns or collaborates on and every issue assigned to the user is
\* returned by one of them, and none of them returns any other issue.
ReadersAndOnlyReadersGetTheIssue ==
    /\ \A u \in Callers :
          ServedByGetIssues(u) \cup ServedByGetProject(u) \cup ServedByGetProjects(u)
             = {i \in DOMAIN Issue : canReadIssue(u, i)}
    /\ resp.op = "GET /issues" =>
          \A k \in DOMAIN resp.body.list :
              canReadIssue(resp.request.userId, resp.body.list[k].id)
    /\ resp.op = "GET /projects" =>
          \A k \in DOMAIN resp.body.list : \A i \in resp.body.list[k].issues :
              canReadIssue(resp.request.userId, i)

\* a collaborator who is neither owner nor assignee has read an issue through
\* GET /projects/:id, an issue that GET /issues and GET /projects do not return to
\* any collaborator of the project
CollaboratorReadThroughProject ==
    /\ resp.op = "GET /projects/:id"
    /\ resp.status = 200
    /\ resp.body.userRole = "collaborator"
    /\ \E i \in resp.body.issues :
          /\ RowsOfIssue(IssueAssignee, i) = {}
          /\ \A u \in DOMAIN resp.body.collaborators \ {resp.body.ownerId} :
                /\ canReadIssue(u, i)
                /\ i \notin ServedByGetIssues(u) \cup ServedByGetProjects(u)

----------------------------------------------------------------------------
(* The list of issues *)

\* the letters that differ by case only
CasePairs ==
    {<<"F", "f">>, <<"L", "l">>, <<"O", "o">>, <<"G", "g">>, <<"I", "i">>, <<"N", "n">>}

SameLetter(a, b) == a = b \/ <<a, b>> \in CasePairs \/ <<b, a>> \in CasePairs

\* text occurs in title as a substring, letters compared without regard to case
TitleHasText(title, text) ==
    LET t == Chars(title)
        x == Chars(text)
    IN  \E off \in 0..(Len(t) - Len(x)) :
            \A j \in 1..Len(x) : SameLetter(t[off + j], x[j])

\* the issues a query of u asks for: visible to u by ownership of the project or
\* by assignment, and passing every filter the query supplies
Asked(u, q) ==
    {i \in DOMAIN Issue :
        /\ \/ Project[Issue[i].projectId].ownerId = u
           \/ BagIn([issueId |-> i, userId |-> u], IssueAssignee)
        /\ q.projectId = NoId \/ Issue[i].projectId = q.projectId
        /\ q.status = "" \/ Issue[i].status = q.status
        /\ q.priority = "" \/ Issue[i].priority = q.priority
        /\ q.search = "" \/ TitleHasText(Issue[i].title, q.search)}

\* C18: GET /issues answers 200 with exactly the issues that are in a project the
\* caller owns or are assigned to the caller and that satisfy every supplied filter
\* (projectId, status and priority equal, title containing the search text without
\* regard to case), each once, newest-created first; the search text 'login' finds
\* 'Fix login bug' and not 'Fix signup bug'.
IssueListFilteredNewestFirst ==
    resp.op = "GET /issues" =>
        LET q == resp.request
            list == resp.body.list
        IN  /\ resp.status = 200
            /\ ListedIds(list) = Asked(q.userId, q)
            /\ Len(list) = Cardinality(ListedIds(list))
            /\ \A j, k \in DOMAIN list :
                  j < k => Issue[list[j].id].createdAt >= Issue[list[k].id].createdAt
            /\ \A k \in DOMAIN list :
                  /\ list[k] = HydrateIssue(Issue, IssueAssignee, Project, list[k].id)
                  /\ q.search \in {"login", "LOGIN"} => list[k].title = "Fix login bug"

\* a search for 'LOGIN' returned 'Fix login bug' alone to a caller to whom
\* 'Fix signup bug' is visible too
SearchFoundLoginBugOnly ==
    /\ resp.op = "GET /issues"
    /\ resp.request.search = "LOGIN"
    /\ Len(resp.body.list) = 1
    /\ resp.body.list[1].title = "Fix login bug"
    /\ \E i \in DOMAIN Issue :
          /\ Issue[i].title = "Fix signup bug"
          /\ i \in Asked(resp.request.userId,
                         [projectId |-> NoId, status |-> "", priority |-> "", search |-> ""])

----------------------------------------------------------------------------
(* Requests for a reset code *)

\* C19: forgot-password answers every address, registered or not, with the same
\* success-shaped response (status 200, the one message), so that the response does
\* not tell whether the address has an account; and it persists an Otp row only for
\* a registered address, with a code of six digits and an expiry 10 minutes after
\* its creation.
ForgotPasswordHidesAccounts ==
    [][resp'.op = "forgot-password" =>
          /\ resp'.status = 200
          /\ resp'.message = "If a user with that email exists, an OTP has been sent."
          /\ Otp' # Otp =>
                /\ resp'.request.email \in DOMAIN User
                /\ \E r \in BagToSet(Otp') :
                      /\ Otp' = BagAdd(Otp, r)
                      /\ r.email = resp'.request.email
                      /\ Len(r.otp) = 6
                      /\ \A k \in 1..6 : r.otp[k] \in 0..9
                      /\ r.expires_at = now + 10 * 60 * 1000]_vars

\* what does hold of forgot-password: an address without an account gets 200 and no
\* row; an address with an account gets one new row for that address, with a code
\* of six digits and an expiry 10 minutes after the request, and 200 when the mail
\* went out, 500 when it did not
ForgotPasswordPersistsForUsersOnly ==
    [][resp'.op = "forgot-password" /\ now' = now =>
          IF resp'.request.email \in DOMAIN User
          THEN /\ resp'.status \in {200, 500}
               /\ \E r \in BagToSet(Otp') :
                     /\ Otp' = BagAdd(Otp, r)
                     /\ r.email = resp'.request.email
                     /\ Len(r.otp) = 6
                     /\ \A k \in 1..6 : r.otp[k] \in 0..9
                     /\ r.expires_at = now + 10 * 60 * 1000
          ELSE resp'.status = 200 /\ Otp' = Otp]_vars

----------------------------------------------------------------------------
(* Concurrent requests on the assignees of an issue *)

\* C20: in every reachable state, whatever the interleaving of the database calls of
\* issue create, PATCH, assign and unassign requests, no user has more than one
\* assignee link to the same issue.
OneLinkPerAssignee ==
    \A r \in BagToSet(IssueAssignee) : CopiesIn(r, IssueAssignee) = 1
\* two assign requests for the same users are in progress at once, each has run all
\* its creates, and every user has one link
OverlappingAssignsSettled ==
    /\ \A s \in Slots :
          /\ inflight[s].op = "POST /issues/:issueId/assign"
          /\ inflight[s].issueId = 1
          /\ inflight[s].userIds = <<"B", "C">>
          /\ inflight[s].pending = {}
          /\ ~inflight[s].failed
    /\ IssueAssignee = SetToBag({[issueId |-> 1, userId |-> u] : u \in {"B", "C"}})

\* the users that have a link to issue i in the table
AssigneeSet(table, i) == {r.userId : r \in RowsOfIssue(table, i)}

\* the handler in slot s answers in this step, and no other handler is in progress
\* afterwards
LastToFinish(s) ==
    /\ inflight[s].op # "idle"
    /\ \A t \in Slots : inflight'[t].op = "idle"

\* C21: last write wins for concurrent PATCH requests on one issue: when a PATCH
\* carrying assigneeIds S2 is answered 200, the response before it was the 200 of a
\* PATCH on the same issue carrying S1, and no request is in progress any more, the
\* issue's assignees are the users of S1 or the users of S2, not a mixture.
LastPatchWins ==
    [][\A s \in Slots :
          /\ LastToFinish(s)
          /\ inflight[s].op = "PATCH /issues/:issueId"
          /\ resp'.status = 200
          /\ resp.op = "PATCH /issues/:issueId"
          /\ resp.status = 200
          /\ resp.request.id = inflight[s].issueId
          => AssigneeSet(IssueAssignee', inflight[s].issueId)
                \in {Range(resp.request.assigneeIds.value),
                     Range(inflight[s].assigneeIds.value)}]_vars

----------------------------------------------------------------------------
(* Concurrent requests on the credentials *)

\* the step is the database write of a signup handler
SignupWrites(s) == inflight[s].op = "signup" /\ inflight'[s].op = "idle"

\* C22: whatever the interleaving of signup requests carrying the same email, a
\* signup is answered 201 only when it creates the one User row of its email, with
\* the hash of its own password; once a row for an email is there no signup is
\* answered 201 for that email and no signup changes the row. So at most one row per
\* email ever exists, at most one request per email is answered 201, and the stored
\* hash is the one of that request.
OneSignupPerEmailWins ==
    [][\A s \in Slots : SignupWrites(s) =>
          LET email == inflight[s].email
          IN  /\ \A e \in DOMAIN User : e \in DOMAIN User' /\ User'[e] = User[e]
              /\ resp'.status = 201 <=> email \notin DOMAIN User
              /\ resp'.status = 201 =>
                    /\ DOMAIN User' = DOMAIN User \cup {email}
                    /\ User'[email].password_hash = bcryptHash(inflight[s].password)
              /\ resp'.status # 201 => resp'.status = 500 /\ User' = User]_vars

\* a signup for B has just been answered 500: it had found no row for B, and the
\* create of another signup for B ran before its own
SecondSignupLostTheRace ==
    /\ resp.op = "signup"
    /\ resp.status = 500
    /\ resp.request.email = "B"
    /\ "B" \in DOMAIN User
    /\ \A s \in Slots : inflight[s].op = "idle"
\* the handler in slot s has replaced the password hash on the strength of row r
ReplacedHashBy(s, r) ==
    /\ inflight[s].op = "verify-otp"
    /\ inflight[s].pc = "delete"
    /\ inflight[s].otpRecord = r

\* C23: whatever the interleaving of verify-otp requests, one Otp row authorises at
\* most one replacement of the password hash: two verify-otp handlers in progress
\* that found the same single row (same email, same code) and carry different new
\* passwords have not both replaced the user's password hash.
OneResetPerOtpRecord ==
    \A r \in BagToSet(Otp) :
        CopiesIn(r, Otp) = 1 =>
            \A s, t \in Slots :
                (/\ ReplacedHashBy(s, r)
                 /\ ReplacedHashBy(t, r)
                 /\ inflight[s].newPassword # inflight[t].newPassword)
                => s = t

----------------------------------------------------------------------------
(* Refused requests *)

\* C24: a project or issue request that is answered 400, 403 or 404 leaves the
\* projects, the collaborator links, the issues and the assignee links as they were
\* and broadcasts no event.
RefusalsChangeNothing ==
    [][resp'.status \in {400, 403, 404} =>
          /\ Project' = Project
          /\ ProjectCollaborator' = ProjectCollaborator
          /\ Issue' = Issue
          /\ IssueAssignee' = IssueAssignee
          /\ emitted' = <<>>]_vars

\* a user who does not own the project has been refused the removal of assignees
\* with 403, on an issue that has assignees, a collaborator of the project and so a
\* user to whom the issue is visible; the links are as the request found them
RefusedUnassignLeftLinks ==
    /\ resp.op = "POST /issues/:issueId/unassign"
    /\ resp.status = 403
    /\ RowsOfIssue(IssueAssignee, resp.request.id) # {}
    /\ ProjectCollaborator # EmptyBag
    /\ prior.IssueAssignee = IssueAssignee
    /\ prior.ProjectCollaborator = ProjectCollaborator
    /\ emitted = <<>>

============================================================================
